---- MODULE Spec2Model ----
(***************************************************************************)
(* The workflow engine of SuperDashboard,                                  *)
(* src/plugins/workflow-engine/backend: the graph executor (executor.py),  *)
(* the cron scheduler wrapper (scheduler.py) and the HTTP endpoints and    *)
(* execution records (main.py, models.py).                                 *)
(*                                                                         *)
(* The endpoints are coroutines on one asyncio event loop: code between    *)
(* two awaits that reach the loop (asyncio.sleep, an httpx call) runs      *)
(* without interleaving.  `current` is the run that holds the loop.        *)
(***************************************************************************)
EXTENDS Integers, Sequences, FiniteSets, TLC

VARIABLES
    workflows,            \* table workflows: id -> row (main.py, models.py)
    executions,           \* table workflow_executions: execution id -> row
    execution_context,    \* WorkflowExecutor.execution_context of the one module-level executor
    ctx_writer,           \* history: for each context key, the run that stored it last
    ctx_order,            \* the keys of execution_context in the dict's insertion order
    tasks,                \* the coroutine of each run: call stack, logs, position
    current,              \* the run holding the event loop, 0 when the loop is idle
    webhook,              \* the webhook_trigger request in flight
    reply,                \* the last HTTP response sent
    running,              \* AsyncIOScheduler.running
    pending_jobs,         \* jobs added while the scheduler is stopped
    jobstore,             \* the scheduler's job store: job id -> job
    scheduled_workflows,  \* WorkflowScheduler.scheduled_workflows: workflow id -> job id
    sched_call,           \* the last call of the scheduler's interface and how it ended
    fired,                \* workflow ids the scheduler invoked the callback with
    cond_call,            \* the last call of _execute_condition made on its own, and its outcome
    resolve_call,         \* the last call of _replace_variables made on its own, and its outcome
    exec_calls            \* the texts handed to exec() by _evaluate_simple_javascript

vars == <<workflows, executions, execution_context, ctx_writer, ctx_order, tasks, current,
          webhook, reply, running, pending_jobs, jobstore, scheduled_workflows,
          sched_call, fired, cond_call, resolve_call, exec_calls>>

schedVars == <<running, pending_jobs, jobstore, scheduled_workflows>>
runVars == <<executions, execution_context, ctx_writer, ctx_order, tasks, current, webhook>>

-----------------------------------------------------------------------------
(* Bounds *)

MaxExecs == 2
MaxDepth == 4

-----------------------------------------------------------------------------
(* JSON values: None, bool, str, number, dict, list.  A str is its         *)
(* sequence of tokens, so that startswith, endswith, slicing, split and    *)
(* replace act on it.                                                      *)

Null == [t |-> "null"]
B(b) == [t |-> "bool", b |-> b]
S(s) == [t |-> "str", s |-> s]
N(n) == [t |-> "num", n |-> n]
D(f) == [t |-> "dict", d |-> f]
L(l) == [t |-> "list", l |-> l]

EmptyMap == <<>>
Put(f, k, v) == [x \in (DOMAIN f) \cup {k} |-> IF x = k THEN v ELSE f[x]]
Drop(f, k) == [x \in (DOMAIN f) \ {k} |-> f[x]]
Get(f, k, default) == IF k \in DOMAIN f THEN f[k] ELSE default

\* Python truthiness of a value
Truthy(v) ==
    CASE v.t = "null" -> FALSE
      [] v.t = "bool" -> v.b
      [] v.t = "str" -> v.s # <<>>
      [] v.t = "num" -> v.n # 0
      [] v.t = "dict" -> DOMAIN v.d # {}
      [] v.t = "list" -> v.l # <<>>

-----------------------------------------------------------------------------
(* Cron expressions, as WorkflowScheduler.schedule_workflow reads them *)

IsField(tok) == tok # " "
Split(expr) == SelectSeq(expr, IsField)

CronDaily == <<"0", " ", "9", " ", "*", " ", "*", " ", "*">>
CronEvery == <<" ", "*", " ", "*", " ", " ", "*", " ", "*", " ", "*">>
CronFourFields == <<"0", " ", "9", " ", "*", " ", "*">>
CronBadMinute == <<"61", " ", "9", " ", "*", " ", "*", " ", "*">>
ValidCrons == {CronDaily, CronEvery}
MalformedCrons == {CronFourFields, CronBadMinute}
Crons == ValidCrons \cup MalformedCrons

NumOf == [tok \in {"0", "9", "61"} |-> CASE tok = "0" -> 0 [] tok = "9" -> 9 [] tok = "61" -> 61]
FieldRange == << <<0, 59>>, <<0, 23>>, <<1, 31>>, <<1, 12>>, <<0, 6>> >>

\* CronTrigger(minute, hour, day, month, day_of_week) accepts the field
FieldOk(i, tok) ==
    \/ tok = "*"
    \/ /\ tok \in DOMAIN NumOf
       /\ NumOf[tok] >= FieldRange[i][1]
       /\ NumOf[tok] <= FieldRange[i][2]

\* The ValueError schedule_workflow's try block raises, if any
CronRaises(expr) ==
    LET parts == Split(expr) IN
    IF Len(parts) # 5 THEN TRUE
    ELSE \E i \in 1..5 : ~FieldOk(i, parts[i])

-----------------------------------------------------------------------------
(* WorkflowScheduler over APScheduler's AsyncIOScheduler.  A scheduler     *)
(* state is [run, pj, js, sw, raised]: running, pending jobs, job store,   *)
(* scheduled_workflows, and whether the call raised to its caller.         *)

Wids == {"w1", "w2"}

JobId(w) == <<"workflow_", w>>

SchedState == [run |-> running, pj |-> pending_jobs, js |-> jobstore,
               sw |-> scheduled_workflows, raised |-> FALSE]

RemoveAt(s, i) == SubSeq(s, 1, i - 1) \o SubSeq(s, i + 1, Len(s))

\* scheduler.remove_job(job_id): a stopped scheduler deletes the first pending
\* job with that id, a running one the job of the store; JobLookupError otherwise
remove_job(st, id) ==
    IF ~st.run
    THEN LET hits == {i \in 1..Len(st.pj) : st.pj[i].id = id} IN
         IF hits = {} THEN [st EXCEPT !.raised = TRUE]
         ELSE LET i == CHOOSE i \in hits : \A j \in hits : i <= j
              IN [st EXCEPT !.pj = RemoveAt(st.pj, i)]
    ELSE IF id \in DOMAIN st.js
         THEN [st EXCEPT !.js = Drop(st.js, id)]
         ELSE [st EXCEPT !.raised = TRUE]

\* scheduler.add_job(..., id, replace_existing=True)
add_job(st, job) ==
    IF ~st.run
    THEN [st EXCEPT !.pj = Append(st.pj, job)]
    ELSE [st EXCEPT !.js = Put(st.js, job.id, job)]

\* unschedule_workflow reading scheduled_workflows[workflow_id] instead of
\* .get(workflow_id): KeyError for an id that is not scheduled
unschedule_workflow_subscript(st, w) ==
    IF w \notin DOMAIN st.sw THEN [st EXCEPT !.raised = TRUE]
    ELSE LET r == remove_job(st, st.sw[w]) IN
         IF r.raised THEN st
         ELSE [r EXCEPT !.sw = Drop(r.sw, w)]

unschedule_workflow(st, w) ==
    IF w \notin DOMAIN st.sw THEN st
    ELSE LET r == remove_job(st, st.sw[w]) IN
         IF r.raised THEN st
         ELSE [r EXCEPT !.sw = Drop(r.sw, w)]

\* schedule_workflow without "Remove existing schedule if any"
schedule_workflow_keep(st, w, expr) ==
    IF CronRaises(expr) THEN [st EXCEPT !.raised = TRUE]
    ELSE LET job == [id |-> JobId(w), cron |-> Split(expr), wid |-> w]
             s2 == add_job(st, job)
         IN [s2 EXCEPT !.sw = Put(s2.sw, w, job.id)]

\* schedule_workflow whose except clause logs and does not re-raise, the job
\* added before the trigger is built
schedule_workflow_swallow(st, w, expr) ==
    LET s1 == unschedule_workflow(st, w)
        job == [id |-> JobId(w), cron |-> Split(expr), wid |-> w]
        s2 == add_job(s1, job)
    IN [s2 EXCEPT !.sw = Put(s2.sw, w, job.id)]

\* schedule_workflow building the trigger first, the old registration removed
\* only once the expression has been accepted
schedule_workflow_validate_first(st, w, expr) ==
    IF CronRaises(expr) THEN [st EXCEPT !.raised = TRUE]
    ELSE LET s1 == unschedule_workflow(st, w)
             job == [id |-> JobId(w), cron |-> Split(expr), wid |-> w]
             s2 == add_job(s1, job)
         IN [s2 EXCEPT !.sw = Put(s2.sw, w, job.id)]

schedule_workflow(st, w, expr) ==
    LET s1 == unschedule_workflow(st, w) IN
    IF CronRaises(expr) THEN [s1 EXCEPT !.raised = TRUE]
    ELSE LET job == [id |-> JobId(w), cron |-> Split(expr), wid |-> w]
             s2 == add_job(s1, job)
         IN [s2 EXCEPT !.sw = Put(s2.sw, w, job.id)]

\* scheduler.get_job(job_id): the pending list of a stopped scheduler, the
\* store of a running one
get_job(st, id) ==
    IF ~st.run THEN {i \in 1..Len(st.pj) : st.pj[i].id = id} # {}
    ELSE id \in DOMAIN st.js

\* the ids get_scheduled_workflows reports
get_scheduled_workflows(st) == {w \in DOMAIN st.sw : get_job(st, st.sw[w])}

SetSched(st) ==
    /\ pending_jobs' = st.pj
    /\ jobstore' = st.js
    /\ scheduled_workflows' = st.sw
    /\ running' = st.run

-----------------------------------------------------------------------------
(* The scheduler's interface called directly (scheduler.py) *)

RECURSIVE AddAll(_, _)
\* scheduler.start() moves the pending jobs into the job store, in order
AddAll(js, pj) ==
    IF pj = <<>> THEN js
    ELSE AddAll(Put(js, Head(pj).id, Head(pj)), Tail(pj))

\* was: the workflow id was in scheduled_workflows when the call was made
NoCall == [op |-> "none", wid |-> "", cron |-> <<>>, raised |-> FALSE, was |-> FALSE]
Call(op, w, expr, raised) ==
    [op |-> op, wid |-> w, cron |-> expr, raised |-> raised,
     was |-> w \in DOMAIN scheduled_workflows]

SchedulerStart ==
    /\ ~running
    /\ running' = TRUE
    /\ jobstore' = AddAll(jobstore, pending_jobs)
    /\ pending_jobs' = <<>>
    /\ sched_call' = Call("start", "", <<>>, FALSE)
    /\ UNCHANGED <<scheduled_workflows, fired, cond_call, resolve_call, exec_calls, workflows, reply, runVars>>

\* shutdown() of the in-memory job store drops its jobs
SchedulerStop ==
    /\ running
    /\ running' = FALSE
    /\ jobstore' = EmptyMap
    /\ sched_call' = Call("stop", "", <<>>, FALSE)
    /\ UNCHANGED <<pending_jobs, scheduled_workflows, fired, cond_call, resolve_call, exec_calls, workflows, reply, runVars>>

ScheduleCall(w, expr) ==
    LET r == schedule_workflow(SchedState, w, expr) IN
    /\ SetSched(r)
    /\ sched_call' = Call("schedule", w, expr, r.raised)
    /\ UNCHANGED <<fired, cond_call, resolve_call, exec_calls, workflows, reply, runVars>>

UnscheduleCall(w) ==
    LET r == unschedule_workflow(SchedState, w) IN
    /\ SetSched(r)
    /\ sched_call' = Call("unschedule", w, <<>>, r.raised)
    /\ UNCHANGED <<fired, cond_call, resolve_call, exec_calls, workflows, reply, runVars>>

\* A cron tick of a running scheduler: the job's callback is invoked with
\* kwargs workflow_id
CronTick(id) ==
    /\ running
    /\ id \in DOMAIN jobstore
    /\ fired' = fired \cup {[wid |-> jobstore[id].wid, cron |-> jobstore[id].cron]}
    /\ UNCHANGED <<schedVars, sched_call, workflows, reply, runVars, cond_call, resolve_call, exec_calls>>

-----------------------------------------------------------------------------
(* The workflow CRUD endpoints (main.py).  A handler has no await that     *)
(* reaches the event loop, so each is one step.  HTTPException is an       *)
(* Exception: the 404 raised inside the try block is caught by the         *)
(* handler's own except clause and leaves as a 500.                        *)

Defs == {"chain", "cycle"}
Schedules == {Null, S(<<>>)} \cup {S(c) : c \in Crons}

Reply(op, id, code, status) == [op |-> op, id |-> id, code |-> code, status |-> status]
NoReply == Reply("none", "", 0, "")

Row(en, sch, d) == [enabled |-> en, schedule |-> sch, def |-> d]

\* the "Update schedule" tail shared by create, update and toggle
Reschedule(op, w, en, sch, orElseUnschedule) ==
    IF Truthy(sch) /\ en
    THEN LET r == schedule_workflow(SchedState, w, sch.s) IN
         /\ SetSched(r)
         /\ sched_call' = Call("schedule", w, sch.s, r.raised)
         /\ reply' = IF r.raised
                      THEN Reply(op, w, 500, "failed")
                      ELSE Reply(op, w, 200, "ok")
    ELSE IF orElseUnschedule
         THEN LET r == unschedule_workflow(SchedState, w) IN
              /\ SetSched(r)
              /\ sched_call' = Call("unschedule", w, <<>>, r.raised)
              /\ reply' = Reply(op, w, 200, "ok")
         ELSE /\ UNCHANGED <<schedVars, sched_call>>
              /\ reply' = Reply(op, w, 200, "ok")

create_workflow(w, en, sch, d) ==
    /\ current = 0
    /\ IF w \in DOMAIN workflows
       THEN \* db.commit() raises IntegrityError on the primary key; rollback
            /\ reply' = Reply("create", w, 500, "failed")
            /\ UNCHANGED <<workflows, schedVars, sched_call>>
       ELSE /\ workflows' = Put(workflows, w, Row(en, sch, d))
            /\ Reschedule("create", w, en, sch, FALSE)
    /\ UNCHANGED <<fired, cond_call, resolve_call, exec_calls, runVars>>

update_workflow(w, en, sch, d) ==
    /\ current = 0
    /\ IF w \notin DOMAIN workflows
       THEN /\ reply' = Reply("update", w, 500, "404: Workflow not found")
            /\ UNCHANGED <<workflows, schedVars, sched_call>>
       ELSE /\ workflows' = Put(workflows, w, Row(en, sch, d))
            /\ Reschedule("update", w, en, sch, TRUE)
    /\ UNCHANGED <<fired, cond_call, resolve_call, exec_calls, runVars>>

toggle_workflow(w, en) ==
    /\ current = 0
    /\ IF w \notin DOMAIN workflows
       THEN /\ reply' = Reply("toggle", w, 500, "404: Workflow not found")
            /\ UNCHANGED <<workflows, schedVars, sched_call>>
       ELSE /\ workflows' = [workflows EXCEPT ![w].enabled = en]
            /\ Reschedule("toggle", w, en, workflows[w].schedule, TRUE)
    /\ UNCHANGED <<fired, cond_call, resolve_call, exec_calls, runVars>>

\* the rows of workflow_executions go with their workflow (cascade)
delete_workflow(w) ==
    /\ current = 0
    /\ IF w \notin DOMAIN workflows
       THEN /\ reply' = Reply("delete", w, 500, "404: Workflow not found")
            /\ UNCHANGED <<workflows, executions, schedVars, sched_call>>
       ELSE LET r == unschedule_workflow(SchedState, w) IN
            /\ SetSched(r)
            /\ sched_call' = Call("unschedule", w, <<>>, r.raised)
            /\ workflows' = Drop(workflows, w)
            /\ executions' = [e \in {x \in DOMAIN executions : executions[x].workflow_id # w}
                                |-> executions[e]]
            /\ reply' = Reply("delete", w, 200, "deleted")
    /\ UNCHANGED <<fired, cond_call, resolve_call, exec_calls, execution_context, ctx_writer, ctx_order, tasks, current, webhook>>

-----------------------------------------------------------------------------
(* Workflow definitions the endpoints are called with.  "chain" is         *)
(* t1 -> p1 -> d1 -> s1, "cycle" is a -> b -> a.                           *)

Node(id, type, data) == [id |-> id, type |-> type, data |-> data]
Edge(s, t, c) == [source |-> s, target |-> t, condition |-> c]

ChainNodes ==
    << Node("t1", "trigger", [triggerType |-> S(<<"webhook">>)]),
       Node("p1", "plugin-action",
            [plugin |-> S(<<"echo">>), action |-> S(<<"/ping">>),
             method |-> S(<<"get">>), parameters |-> D(EmptyMap)]),
       Node("d1", "delay", [delay |-> N(1)]),
       Node("s1", "transform",
            [transformType |-> S(<<"set">>), variable |-> S(<<"v">>),
             value |-> S(<<"{{", " ", "p1", ".", "count", "}}">>)]) >>

ChainEdges == << Edge("t1", "p1", Null), Edge("p1", "d1", Null), Edge("d1", "s1", Null) >>

CycleNodes ==
    << Node("a", "trigger", [triggerType |-> S(<<"manual">>)]),
       Node("b", "audit", EmptyMap) >>

CycleEdges == << Edge("a", "b", Null), Edge("b", "a", Null) >>

\* Definitions for single runs.  Nodes shared by several of them:
ManualTrigger == Node("t1", "trigger", [triggerType |-> S(<<"manual">>)])
WebhookTrigger == Node("t1", "trigger", [triggerType |-> S(<<"webhook">>)])
PingAction ==
    Node("p1", "plugin-action",
         [plugin |-> S(<<"echo">>), action |-> S(<<"/ping">>), method |-> S(<<"GET">>)])
PatchAction ==
    Node("p1", "plugin-action",
         [plugin |-> S(<<"echo">>), action |-> S(<<"/ping">>), method |-> S(<<"PATCH">>)])
SetNode ==
    Node("s1", "transform",
         [transformType |-> S(<<"set">>), variable |-> S(<<"v">>), value |-> S(<<"done">>)])
\* operator, leftValue and rightValue as the designer writes them
GateData ==
    [operator |-> S(<<"greater_than">>),
     leftValue |-> S(<<"{{", "p1", ".", "count", "}}">>), rightValue |-> S(<<"3">>)]
Guard == D([kind |-> S(<<"result">>)])
SecondTrigger == Node("t2", "trigger", [triggerType |-> S(<<"manual">>)])
\* "a" equals "b": False
FalseCondition ==
    Node("c1", "condition",
         [conditionType |-> S(<<"comparison">>), operator |-> S(<<"equals">>),
          leftValue |-> S(<<"a">>), rightValue |-> S(<<"b">>)])
SetM(id, m) ==
    Node(id, "transform",
         [transformType |-> S(<<"set">>), variable |-> S(<<"m">>), value |-> S(<<m>>)])
JoinNode ==
    Node("j1", "transform",
         [transformType |-> S(<<"set">>), variable |-> S(<<"v">>),
          value |-> S(<<"{{", "m", "}}">>)])
MergeNode ==
    Node("m1", "transform",
         [transformType |-> S(<<"merge">>),
          sources |-> L(<<S(<<"{{", "t1", "}}">>), S(<<"{{", "p1", "}}">>), S(<<"plain">>)>>)])
\* an expression of transform code: the json module handed to the code
\* carries the codecs module, whose open() is the host's
ReadPasswd == "json.codecs.open('/etc/passwd').read()"
CodeNode(code) == Node("x1", "transform", [code |-> S(code)])
Codes ==
    [script |-> <<"const ", "out", " = ", "input">>,
     pick |-> <<"let ", "returned", " = ", "input">>,
     inject |-> <<"context", "['", "leak", "']", " = ", "input">>,
     readfile |-> <<"var ", "out", " = ", ReadPasswd>>,
     jsreturn |-> <<"return", " ", "{", "}">>]

RunGraphs ==
    [solo |-> [nodes |-> <<ManualTrigger>>, edges |-> <<>>],
     hook |-> [nodes |-> <<WebhookTrigger>>, edges |-> <<>>],
     ping |-> [nodes |-> <<ManualTrigger, PingAction>>, edges |-> <<Edge("t1", "p1", Null)>>],
     empty |-> [nodes |-> <<>>, edges |-> <<>>],
     dangling |-> [nodes |-> <<ManualTrigger>>, edges |-> <<Edge("t1", "zz", Null)>>],
     fan |-> [nodes |-> <<ManualTrigger, PingAction, SetNode>>,
              edges |-> <<Edge("t1", "p1", Null), Edge("t1", "s1", Null)>>],
     lenient |-> [nodes |-> <<ManualTrigger, Node("u1", "audit", EmptyMap), SetNode>>,
                  edges |-> <<Edge("t1", "u1", Null), Edge("u1", "s1", Null)>>],
     gate |-> [nodes |-> <<ManualTrigger, PingAction,
                           Node("c1", "condition",
                                Put(GateData, "conditionType", S(<<"comparison">>))),
                           SetNode>>,
               edges |-> <<Edge("t1", "p1", Null), Edge("p1", "c1", Null),
                           Edge("c1", "s1", Guard)>>],
     gate0 |-> [nodes |-> <<ManualTrigger, PingAction, Node("c1", "condition", GateData),
                            SetNode>>,
                edges |-> <<Edge("t1", "p1", Null), Edge("p1", "c1", Null),
                            Edge("c1", "s1", Guard)>>],
     badmethod |-> [nodes |-> <<ManualTrigger, PatchAction, SetNode>>,
                    edges |-> <<Edge("t1", "p1", Null), Edge("p1", "s1", Null)>>],
     twin |-> [nodes |-> <<ManualTrigger, SecondTrigger, PingAction, SetNode>>,
               edges |-> <<Edge("t1", "p1", Null), Edge("t2", "s1", Null)>>],
     forks |-> [nodes |-> <<ManualTrigger, FalseCondition, SetNode, PingAction>>,
                edges |-> <<Edge("t1", "c1", Null), Edge("c1", "s1", Null),
                            Edge("c1", "p1", Guard), Edge("c1", "zz", Null)>>],
     diamond |-> [nodes |-> <<ManualTrigger, SetM("b1", "b"), SetM("c1", "c"), JoinNode>>,
                  edges |-> <<Edge("t1", "b1", Null), Edge("t1", "c1", Null),
                              Edge("b1", "j1", Null), Edge("c1", "j1", Null)>>],
     merge |-> [nodes |-> <<ManualTrigger, PingAction, MergeNode>>,
                edges |-> <<Edge("t1", "p1", Null), Edge("p1", "m1", Null)>>],
     script |-> [nodes |-> <<ManualTrigger, PingAction, CodeNode(Codes.script)>>,
                 edges |-> <<Edge("t1", "p1", Null), Edge("p1", "x1", Null)>>],
     pick |-> [nodes |-> <<ManualTrigger, SetNode, CodeNode(Codes.pick)>>,
               edges |-> <<Edge("t1", "s1", Null), Edge("s1", "x1", Null)>>],
     inject |-> [nodes |-> <<ManualTrigger, CodeNode(Codes.inject)>>,
                 edges |-> <<Edge("t1", "x1", Null)>>],
     readfile |-> [nodes |-> <<ManualTrigger, CodeNode(Codes.readfile)>>,
                   edges |-> <<Edge("t1", "x1", Null)>>],
     jsreturn |-> [nodes |-> <<ManualTrigger, CodeNode(Codes.jsreturn)>>,
                   edges |-> <<Edge("t1", "x1", Null)>>],
     badnum |-> [nodes |-> <<ManualTrigger,
                             Node("c1", "condition",
                                  [conditionType |-> S(<<"comparison">>),
                                   operator |-> S(<<"less_than">>),
                                   leftValue |-> S(<<"abc">>), rightValue |-> S(<<"3">>)]),
                             SetNode>>,
                 edges |-> <<Edge("t1", "c1", Null), Edge("c1", "s1", Null)>>]]

RunDefs == DOMAIN RunGraphs

Graph(d) ==
    CASE d = "chain" -> [nodes |-> ChainNodes, edges |-> ChainEdges]
      [] d = "cycle" -> [nodes |-> CycleNodes, edges |-> CycleEdges]
      [] OTHER -> RunGraphs[d]

\* bodies the webhook endpoint is posted with
Payloads == {D([count |-> N(7)]), D([event |-> S(<<"message">>)])}
\* payload: Dict[str, Any] = {}
NoPayload == D(EmptyMap)

\* what the plugin behind p1 may answer (response.json())
Responses == {D([count |-> N(5)]), D([count |-> N(2)])}

\* node ids the webhook endpoint is posted with
WebhookIds == {"t1", "a", "p1"}

-----------------------------------------------------------------------------
(* VariableContext: _replace_variables and _get_context_value *)

RECURSIVE SplitDots(_)
\* path.split('.'): the parts between the "." tokens
SplitDots(s) ==
    LET dots == {i \in 1..Len(s) : s[i] = "."} IN
    IF dots = {} THEN <<s>>
    ELSE LET i == CHOOSE i \in dots : \A j \in dots : i <= j
         IN <<SubSeq(s, 1, i - 1)>> \o SplitDots(SubSeq(s, i + 1, Len(s)))

RECURSIVE Strip(_)
\* str.strip(): leading and trailing whitespace removed
Strip(s) ==
    IF s = <<>> THEN s
    ELSE IF Head(s) = " " THEN Strip(Tail(s))
    ELSE IF s[Len(s)] = " " THEN Strip(SubSeq(s, 1, Len(s) - 1))
    ELSE s

\* the dict key a part of a path spells: one token is an identifier, anything
\* else is text that is no key of any dict here
PartKey(part) == IF Len(part) = 1 THEN part[1] ELSE ""

IsPlaceholder(s) == Len(s) >= 2 /\ s[1] = "{{" /\ s[Len(s)] = "}}"
VarPath(s) == Strip(SubSeq(s, 2, Len(s) - 1))

RECURSIVE Walk(_, _)
Walk(value, parts) ==
    IF parts = <<>> THEN value
    ELSE IF value.t = "dict"
         THEN Walk(Get(value.d, PartKey(Head(parts)), Null), Tail(parts))
         ELSE Null

_get_context_value(path, ctx) == Walk(D(ctx), SplitDots(path))

RECURSIVE _replace_variables(_, _)
_replace_variables(value, ctx) ==
    CASE value.t = "str" ->
            IF IsPlaceholder(value.s)
            THEN _get_context_value(VarPath(value.s), ctx)
            ELSE value
      [] value.t = "dict" ->
            D([k \in DOMAIN value.d |-> _replace_variables(value.d[k], ctx)])
      [] value.t = "list" ->
            L([i \in 1..Len(value.l) |-> _replace_variables(value.l[i], ctx)])
      [] OTHER -> value

RECURSIVE ContextKeysRead(_)
\* history: the context keys a resolution of `value` looks up
ContextKeysRead(value) ==
    CASE value.t = "str" ->
            IF IsPlaceholder(value.s)
            THEN {PartKey(Head(SplitDots(VarPath(value.s))))}
            ELSE {}
      [] value.t = "dict" ->
            UNION {ContextKeysRead(value.d[k]) : k \in DOMAIN value.d}
      [] value.t = "list" ->
            UNION {ContextKeysRead(value.l[i]) : i \in 1..Len(value.l)}
      [] OTHER -> {}

-----------------------------------------------------------------------------
(* _execute_condition (executor.py): Python's ==, str(), float() and `in`  *)
(* on the resolved operands.                                               *)

\* the numbers the numeric strings of this model spell
Numerals == [tok \in {"2", "3", "5"} |->
                CASE tok = "2" -> 2 [] tok = "3" -> 3 [] tok = "5" -> 5]

\* a == b: True equals 1 and False equals 0, values of other types differ
PyNorm(v) == IF v.t = "bool" THEN N(IF v.b THEN 1 ELSE 0) ELSE v
PyEq(a, b) == PyNorm(a) = PyNorm(b)

\* str(v), as tokens
Str(v) ==
    CASE v.t = "str" -> v.s
      [] v.t = "num" -> <<ToString(v.n)>>
      [] v.t = "bool" -> IF v.b THEN <<"True">> ELSE <<"False">>
      [] v.t = "null" -> <<"None">>
      [] OTHER -> <<"{...}">>

\* float(v): ok is FALSE where Python raises ValueError or TypeError
Float(v) ==
    CASE v.t = "num" -> [ok |-> TRUE, n |-> v.n]
      [] v.t = "bool" -> [ok |-> TRUE, n |-> IF v.b THEN 1 ELSE 0]
      [] v.t = "str" ->
            LET s == Strip(v.s) IN
            IF Len(s) = 1 /\ s[1] \in DOMAIN Numerals
            THEN [ok |-> TRUE, n |-> Numerals[s[1]]]
            ELSE [ok |-> FALSE, n |-> 0]
      [] OTHER -> [ok |-> FALSE, n |-> 0]

\* sub in text, for strings
IsSubstring(sub, text) ==
    \E i \in 1..(Len(text) + 1) :
        /\ i + Len(sub) - 1 <= Len(text)
        /\ SubSeq(text, i, i + Len(sub) - 1) = sub

CondValue(b) == [kind |-> "value", value |-> B(b), err |-> ""]
CondRaise(err) == [kind |-> "raise", value |-> Null, err |-> err]

_execute_condition(config, ctx) ==
    LET condition_type == Get(config, "conditionType", S(<<"always">>))
        left_value == _replace_variables(Get(config, "leftValue", Null), ctx)
        right_value == _replace_variables(Get(config, "rightValue", Null), ctx)
        operator == Get(config, "operator", S(<<"equals">>))
        l == Float(left_value)
        r == Float(right_value)
    IN
    IF condition_type = S(<<"always">>) THEN CondValue(TRUE)
    ELSE CASE operator = S(<<"equals">>) -> CondValue(PyEq(left_value, right_value))
           [] operator = S(<<"not_equals">>) -> CondValue(~PyEq(left_value, right_value))
           [] operator = S(<<"contains">>) ->
                 IF right_value.t = "str"
                 THEN CondValue(IsSubstring(right_value.s, Str(left_value)))
                 ELSE CondRaise("'in <string>' requires string as left operand")
           [] operator = S(<<"greater_than">>) ->
                 IF ~l.ok \/ ~r.ok THEN CondRaise("could not convert to float")
                 ELSE CondValue(l.n > r.n)
           [] operator = S(<<"less_than">>) ->
                 IF ~l.ok \/ ~r.ok THEN CondRaise("could not convert to float")
                 ELSE CondValue(l.n < r.n)
           [] OTHER -> CondValue(FALSE)

\* the context keys _execute_condition looks up
ConditionReads(config) ==
    IF Get(config, "conditionType", S(<<"always">>)) = S(<<"always">>) THEN {}
    ELSE ContextKeysRead(Get(config, "leftValue", Null))
            \cup ContextKeysRead(Get(config, "rightValue", Null))

-----------------------------------------------------------------------------
(* WorkflowExecutor (executor.py): one run is a coroutine; its nested      *)
(* _execute_node_chain calls are the frames of `stack`.                    *)

Execs == 1..MaxExecs

Log(level, msg, node, text) == [level |-> level, msg |-> msg, node |-> node, text |-> text]

\* trace of a task: history, the node results this run stored, in order
Visit(id, res) == [node |-> id, res |-> res]

Frame(i) == [node |-> i, ph |-> "enter", res |-> Null, ei |-> 1, last |-> Null, has |-> FALSE]

FreeTask == [st |-> "free", wid |-> "", def |-> "", trigger_type |-> "", ti |-> 0,
             stack |-> <<>>, logs |-> <<>>, result |-> Null, read_from |-> {},
             trace |-> <<>>]

Indices(n) == [i \in 1..n |-> i]

\* trigger_nodes of execute_workflow, as indices into nodes
TriggerNodes(nodes) ==
    LET IsTrigger(i) == nodes[i].type = "trigger"
        trig == SelectSeq(Indices(Len(nodes)), IsTrigger)
    IN IF trig # <<>> THEN trig
       ELSE IF nodes # <<>> THEN <<1>> ELSE <<>>

\* the outgoing edges taken last to first
Outgoing_reversed(edges, id) ==
    LET From(ed) == ed.source = id
        out == SelectSeq(edges, From)
    IN [i \in 1..Len(out) |-> out[Len(out) + 1 - i]]

\* outgoing_edges of _execute_node_chain
Outgoing(edges, id) ==
    LET From(ed) == ed.source = id IN SelectSeq(edges, From)

\* next((n for n in all_nodes if n.get('id') == target_node_id), None); 0 is None
TargetIndex(nodes, id) ==
    LET hits == {i \in 1..Len(nodes) : nodes[i].id = id} IN
    IF hits = {} THEN 0 ELSE CHOOSE i \in hits : \A j \in hits : i <= j

\* the boolean check made on every edge, with or without a condition
_evaluate_edge_condition_strict(edge, node_result) ==
    IF node_result.t = "bool" THEN node_result.b ELSE TRUE

_evaluate_edge_condition(edge, node_result) ==
    IF ~Truthy(edge.condition) THEN TRUE
    ELSE IF node_result.t = "bool" THEN node_result.b
    ELSE TRUE

Upper(tok) == CASE tok = "get" -> "GET" [] tok = "post" -> "POST" [] OTHER -> tok
HttpMethods == {"GET", "POST", "PUT", "DELETE"}

\* an unrecognized type treated as an error of the handler
UnknownNode_raise(node) ==
    [kind |-> "raise", value |-> Null, logs |-> <<>>, sets |-> <<>>, reads |-> {},
     err |-> "Unknown node type", execs |-> {}]

\* the else branch of _execute_node: a warning, and None is returned
UnknownNode(node) ==
    [kind |-> "value", value |-> Null,
     logs |-> <<Log("warning", "Unknown node type", node.id, node.type)>>,
     sets |-> <<>>, reads |-> {}, err |-> "", execs |-> {}]

\* the str.replace calls of _evaluate_simple_javascript, token by token
JsToPython(code) ==
    LET Kept(tok) == tok \notin {"const ", "let ", "var "}
        kept == SelectSeq(code, Kept)
    IN [i \in 1..Len(kept) |->
           CASE kept[i] = "===" -> "==" [] kept[i] = "!==" -> "!=" [] OTHER -> kept[i]]

Identifiers == {"out", "returned", "context"}

\* exec(python_code, safe_globals, local_vars) on the statements of this
\* model: an assignment of `input` or of a file's text to a local name, an
\* assignment into the context dict; any other text is a SyntaxError (a
\* `return` outside a function is one).  sets: the keys assigned in `context`,
\* which is self.execution_context itself; opened: the files the code opened.
exec(python_code, input_data, context) ==
    LET none == [raised |-> FALSE, err |-> "", local_vars |-> <<>>, sets |-> <<>>,
                 opened |-> {}]
    IN
    CASE Len(python_code) = 3 /\ python_code[1] \in Identifiers
              /\ python_code[2] = " = " /\ python_code[3] = "input" ->
            [none EXCEPT !.local_vars = << <<python_code[1], input_data>> >>]
      [] Len(python_code) = 3 /\ python_code[1] \in Identifiers
              /\ python_code[2] = " = " /\ python_code[3] = ReadPasswd ->
            [none EXCEPT !.local_vars = << <<python_code[1], S(<<"root:x:0:0:">>)>> >>,
                         !.opened = {"/etc/passwd"}]
      [] Len(python_code) = 6 /\ SubSeq(python_code, 1, 2) = <<"context", "['">>
              /\ SubSeq(python_code, 4, 6) = <<"']", " = ", "input">> ->
            [none EXCEPT !.sets = << <<python_code[3], input_data>> >>]
      [] OTHER -> [none EXCEPT !.raised = TRUE, !.err = "invalid syntax"]

\* the result is the value of the first local when the text contains
\* 'return', else the dict of locals, or None when there is none
_evaluate_simple_javascript(code, input_data, context) ==
    LET python_code == JsToPython(code)
        r == exec(python_code, input_data, context)
        has_return == \E i \in 1..Len(python_code) : python_code[i] \in {"return", "returned"}
        value == IF r.local_vars = <<>> THEN Null
                 ELSE IF has_return THEN r.local_vars[1][2]
                 ELSE D([k \in {r.local_vars[1][1]} |-> r.local_vars[1][2]])
    IN [raised |-> r.raised, err |-> r.err, value |-> value, sets |-> r.sets,
        call |-> [code |-> python_code, ran |-> ~r.raised, opened |-> r.opened]]

NoOutcome == [kind |-> "value", value |-> Null, logs |-> <<>>, sets |-> <<>>,
              reads |-> {}, err |-> "", execs |-> {}]

\* input_data is the value of the key inserted last that is not 'trigger';
\* order: the keys of ctx in insertion order
_execute_javascript_transform(node, ctx, order) ==
    LET code == Get(node.data, "code", S(<<>>))
        NotTrigger(k) == k # "trigger"
        keys == SelectSeq(order, NotTrigger)
        input_key == IF keys = <<>> THEN {} ELSE {keys[Len(keys)]}
        input_data == IF keys = <<>> THEN Null ELSE ctx[keys[Len(keys)]]
        r == _evaluate_simple_javascript(code.s, input_data, ctx)
        executing == Log("info", "Executing transform code", node.id, "")
    IN IF ~Truthy(code) THEN NoOutcome
       ELSE IF r.raised
       THEN [NoOutcome EXCEPT !.kind = "raise", !.err = r.err, !.reads = input_key,
                !.execs = {r.call},
                !.logs = <<executing,
                           Log("error", "Error executing transform code", node.id, r.err)>>]
       ELSE [NoOutcome EXCEPT !.value = r.value, !.sets = r.sets, !.reads = input_key,
                !.execs = {r.call},
                !.logs = <<executing,
                           Log("info", "Transform code executed successfully", node.id, "")>>]

\* dict.update
Update(f, g) == [k \in (DOMAIN f) \cup (DOMAIN g) |-> IF k \in DOMAIN g THEN g[k] ELSE f[k]]

RECURSIVE Merged(_, _, _)
\* the loop of the merge transform over `sources`
Merged(merged, sources, ctx) ==
    IF sources = <<>> THEN merged
    ELSE LET source_value == _replace_variables(Head(sources), ctx)
         IN Merged(IF source_value.t = "dict" THEN Update(merged, source_value.d)
                   ELSE merged,
                   Tail(sources), ctx)

_execute_transform(node, ctx, order) ==
    LET config == node.data
        transform_type == Get(config, "transformType", S(<<"set">>))
    IN
    IF "code" \in DOMAIN config /\ Truthy(config["code"])
    THEN _execute_javascript_transform(node, ctx, order)
    ELSE IF transform_type = S(<<"set">>)
    THEN LET variable_name == Get(config, "variable", Null)
             raw == Get(config, "value", Null)
             value == _replace_variables(raw, ctx)
         IN [NoOutcome EXCEPT !.value = D([k \in {variable_name.s[1]} |-> value]),
                              !.sets = << <<variable_name.s[1], value>> >>,
                              !.reads = ContextKeysRead(raw)]
    ELSE IF transform_type = S(<<"merge">>)
    THEN LET sources == Get(config, "sources", L(<<>>))
         IN [NoOutcome EXCEPT !.value = D(Merged(EmptyMap, sources.l, ctx)),
                              !.reads = ContextKeysRead(sources)]
    ELSE NoOutcome

\* What _execute_node does with `node` up to its first await that reaches the
\* event loop, its return or its raise.  kind: "value" (returned `value`),
\* "sleep" (awaiting asyncio.sleep), "http" (awaiting the httpx call),
\* "raise" (raised `err`).  sets: the context entries the handler itself
\* assigns; reads: the placeholders' values it resolves; execs: the calls of
\* exec() it makes.
NodeOutcome(node, ctx) ==
    LET config == node.data
        none == NoOutcome
    IN
    CASE node.type = "trigger" ->
            [none EXCEPT !.value = D([triggered |-> B(TRUE), timestamp |-> S(<<"utcnow">>)])]
      [] node.type = "plugin-action" ->
            LET method == Get(config, "method", S(<<"GET">>))
                params == Get(config, "parameters", D(EmptyMap))
                calling == <<Log("info", "Calling plugin API", node.id, Upper(method.s[1]))>>
            IN IF Upper(method.s[1]) \in HttpMethods
               THEN [none EXCEPT !.kind = "http", !.logs = calling,
                                 !.reads = ContextKeysRead(params)]
               ELSE [none EXCEPT !.kind = "raise", !.logs = calling,
                                 !.reads = ContextKeysRead(params),
                                 !.err = "Unsupported HTTP method"]
      [] node.type = "condition" ->
            LET c == _execute_condition(config, ctx) IN
            [none EXCEPT !.kind = c.kind, !.value = c.value, !.err = c.err,
                         !.reads = ConditionReads(config)]
      [] node.type = "delay" ->
            [none EXCEPT !.kind = "sleep",
                         !.logs = <<Log("info", "Delaying execution", node.id, "")>>]
      [] node.type = "transform" -> _execute_transform(node, ctx, ctx_order)
      [] OTHER -> UnknownNode(node)

-----------------------------------------------------------------------------
(* execute_workflow_internal (main.py) around WorkflowExecutor.execute_workflow *)

FreeExecs == {e \in Execs : tasks[e].st = "free"}
\* str(uuid.uuid4()): an id no execution has had
NextExec == CHOOSE e \in FreeExecs : \A o \in FreeExecs : e <= o

Top(T) == T.stack[Len(T.stack)]
SetTop(T, f) == [T EXCEPT !.stack[Len(T.stack)] = f]

\* the row is added with status 'running' and committed; the executor's
\* coroutine starts with logs = [] and result = {}
BeginRun(e, w, tt) ==
    /\ executions' = Put(executions, e,
          [workflow_id |-> w, status |-> "running", trigger_type |-> tt,
           ended |-> FALSE, logs |-> <<>>, result |-> Null, error |-> Null])
    /\ tasks' = [tasks EXCEPT ![e] =
          [FreeTask EXCEPT !.st = "run", !.wid = w, !.def = workflows[w].def,
                           !.trigger_type = tt, !.result = D(EmptyMap)]]
    /\ current' = e

\* the except clause answering with a fresh log list instead of `logs`
ExecFailed_fresh(logs, err) ==
    [status |-> "failed",
     logs |-> <<Log("error", "Workflow execution failed", "", err)>>,
     result |-> Null, error |-> S(<<err>>)]

\* what execute_workflow returns from its except clause
ExecFailed(logs, err) ==
    [status |-> "failed",
     logs |-> Append(logs, Log("error", "Workflow execution failed", "", err)),
     result |-> Null, error |-> S(<<err>>)]

\* the completed result carrying the initial `result = {}`
ExecCompleted_initial(logs, result) ==
    [status |-> "completed", logs |-> logs, result |-> D(EmptyMap), error |-> Null]

ExecCompleted(logs, result) ==
    [status |-> "completed", logs |-> logs, result |-> result, error |-> Null]

\* no early return: the empty loop falls through to the completed result
NoTrigger_completed ==
    [status |-> "completed", logs |-> <<>>, result |-> D(EmptyMap), error |-> Null]

NoTrigger ==
    [status |-> "failed", logs |-> <<Log("error", "No trigger node found", "", "")>>,
     result |-> Null, error |-> Null]

\* execute_workflow_internal updating the rows by workflow id rather than the
\* one row it created
Finalize_by_workflow(e, T, ret) ==
    /\ executions' =
          [x \in DOMAIN executions |->
              IF executions[x].workflow_id = T.wid
              THEN [executions[x] EXCEPT !.status = ret.status, !.ended = TRUE,
                       !.logs = ret.logs, !.result = ret.result, !.error = ret.error]
              ELSE executions[x]]
    /\ tasks' = [tasks EXCEPT ![e] =
          [T EXCEPT !.st = "done", !.stack = <<>>, !.logs = ret.logs, !.result = ret.result]]
    /\ IF T.trigger_type = "webhook"
       THEN /\ current' = -1
            /\ UNCHANGED reply
       ELSE /\ current' = 0
            /\ reply' = Reply("execute", T.wid, 200, ret.status)

\* execute_workflow has returned `ret`: the row is updated and committed in the
\* same turn of the loop, and the caller goes on (the execute endpoint answers,
\* webhook_trigger continues its scan)
Finalize(e, T, ret) ==
    /\ executions' =
          IF e \in DOMAIN executions
          THEN [executions EXCEPT ![e] =
                   [@ EXCEPT !.status = ret.status, !.ended = TRUE, !.logs = ret.logs,
                             !.result = ret.result, !.error = ret.error]]
          ELSE executions
    /\ tasks' = [tasks EXCEPT ![e] =
          [T EXCEPT !.st = "done", !.stack = <<>>, !.logs = ret.logs, !.result = ret.result]]
    /\ IF T.trigger_type = "webhook"
       THEN /\ current' = -1
            /\ UNCHANGED reply
       ELSE /\ current' = 0
            /\ reply' = Reply("execute", T.wid, 200, ret.status)

\* self.execution_context[key] = value, for each <<key, value>> of sets in order
RECURSIVE Assign(_, _)
Assign(ctx, sets) ==
    IF sets = <<>> THEN ctx
    ELSE Assign(Put(ctx, Head(sets)[1], Head(sets)[2]), Tail(sets))

RECURSIVE AssignWriter(_, _, _)
AssignWriter(wr, sets, e) ==
    IF sets = <<>> THEN wr
    ELSE AssignWriter(Put(wr, Head(sets)[1], e), Tail(sets), e)

RECURSIVE AssignOrder(_, _)
\* a dict keeps a key at the place of its first assignment
AssignOrder(order, sets) ==
    IF sets = <<>> THEN order
    ELSE LET k == Head(sets)[1]
             seen == \E i \in 1..Len(order) : order[i] = k
         IN AssignOrder(IF seen THEN order ELSE Append(order, k), Tail(sets))

\* the runs whose stored values a resolution of the keys `reads` yields
Writers(reads) == {ctx_writer[k] : k \in reads \cap DOMAIN execution_context}

\* POST /workflows/{workflow_id}/execute
ExecutePost(w) ==
    /\ current = 0
    /\ IF w \notin DOMAIN workflows
       THEN /\ reply' = Reply("execute", w, 500, "404: Workflow not found")
            /\ UNCHANGED <<executions, tasks, current>>
       ELSE /\ FreeExecs # {}
            /\ BeginRun(NextExec, w, "manual")
            /\ UNCHANGED reply
    /\ UNCHANGED <<workflows, execution_context, ctx_writer, ctx_order, webhook, schedVars,
                   sched_call, fired, cond_call, resolve_call, exec_calls>>

\* for trigger_node in trigger_nodes: the log line and the call of the chain
StartTrigger(e) ==
    /\ current = e
    /\ LET T == tasks[e]
           nodes == Graph(T.def).nodes
           trigs == TriggerNodes(nodes)
       IN /\ T.stack = <<>>
          /\ T.ti < Len(trigs)
          /\ tasks' = [tasks EXCEPT ![e] =
                [T EXCEPT !.ti = T.ti + 1,
                          !.logs = Append(T.logs, Log("info",
                                     "Starting workflow execution from node",
                                     nodes[trigs[T.ti + 1]].id, "")),
                          !.stack = <<Frame(trigs[T.ti + 1])>>]]
    /\ UNCHANGED <<workflows, executions, execution_context, ctx_writer, ctx_order, current,
                   webhook, reply, schedVars, sched_call, fired, cond_call, resolve_call, exec_calls>>

\* execute_workflow returns: no trigger node at all, or every trigger walked
ReturnRun(e) ==
    /\ current = e
    /\ LET T == tasks[e]
           trigs == TriggerNodes(Graph(T.def).nodes)
       IN /\ T.stack = <<>>
          /\ T.ti = Len(trigs)
          /\ Finalize(e, T, IF trigs = <<>> THEN NoTrigger
                            ELSE ExecCompleted(T.logs, T.result))
    /\ UNCHANGED <<workflows, execution_context, ctx_writer, ctx_order, webhook, schedVars,
                   sched_call, fired, cond_call, resolve_call, exec_calls>>

\* _execute_node_chain up to the end of _execute_node's synchronous part
EnterNode(e) ==
    /\ current = e
    /\ tasks[e].stack # <<>>
    /\ Top(tasks[e]).ph = "enter"
    /\ LET T == tasks[e]
           f == Top(T)
           node == Graph(T.def).nodes[f.node]
           o == NodeOutcome(node, execution_context)
           logs == Append(T.logs, Log("info", "Executing node", node.id, node.type)) \o o.logs
           T1 == [T EXCEPT !.logs = logs, !.read_from = @ \cup Writers(o.reads)]
           sets == Append(o.sets, <<node.id, o.value>>)
       IN /\ exec_calls' = exec_calls \cup o.execs
          /\ CASE o.kind = "value" ->
                 /\ execution_context' = Assign(execution_context, sets)
                 /\ ctx_writer' = AssignWriter(ctx_writer, sets, e)
                 /\ ctx_order' = AssignOrder(ctx_order, sets)
                 /\ tasks' = [tasks EXCEPT ![e] =
                       [SetTop(T1, [f EXCEPT !.ph = "edges", !.res = o.value])
                           EXCEPT !.trace = Append(@, Visit(node.id, o.value))]]
                 /\ UNCHANGED <<executions, current, reply>>
            [] o.kind \in {"sleep", "http"} ->
                 /\ tasks' = [tasks EXCEPT ![e] =
                       [SetTop(T1, [f EXCEPT !.ph = "await"]) EXCEPT !.st = o.kind]]
                 /\ current' = 0
                 /\ UNCHANGED <<executions, execution_context, ctx_writer, ctx_order, reply>>
            [] o.kind = "raise" ->
                 /\ Finalize(e, T1, ExecFailed(
                       Append(logs, Log("error", "Error executing node", node.id, o.err)),
                       o.err))
                 /\ UNCHANGED <<execution_context, ctx_writer, ctx_order>>
    /\ UNCHANGED <<workflows, webhook, schedVars, sched_call, fired, cond_call, resolve_call>>

\* the node's result is stored and the walk of its outgoing edges begins
Resumed(e, T, value) ==
    LET f == Top(T)
        node == Graph(T.def).nodes[f.node]
    IN /\ execution_context' = Put(execution_context, node.id, value)
       /\ ctx_writer' = Put(ctx_writer, node.id, e)
       /\ ctx_order' = AssignOrder(ctx_order, << <<node.id, value>> >>)
       /\ tasks' = [tasks EXCEPT ![e] =
             [SetTop(T, [f EXCEPT !.ph = "edges", !.res = value])
                 EXCEPT !.st = "run", !.trace = Append(@, Visit(node.id, value))]]
       /\ current' = e

\* asyncio.sleep(delay_seconds) is over
ResumeDelay(e) ==
    /\ current = 0
    /\ tasks[e].st = "sleep"
    /\ LET T == tasks[e]
           node == Graph(T.def).nodes[Top(T).node]
       IN Resumed(e, T, D([delayed |-> Get(node.data, "delay", N(1))]))
    /\ UNCHANGED <<workflows, executions, webhook, reply, schedVars, sched_call, fired, cond_call, resolve_call, exec_calls>>

\* the plugin answered 2xx with JSON body r
HttpResponse(e, r) ==
    /\ current = 0
    /\ tasks[e].st = "http"
    /\ LET T == tasks[e]
           node == Graph(T.def).nodes[Top(T).node]
       IN Resumed(e, [T EXCEPT !.logs = Append(@, Log("info", "Plugin API response", node.id, "200"))], r)
    /\ UNCHANGED <<workflows, executions, webhook, reply, schedVars, sched_call, fired, cond_call, resolve_call, exec_calls>>

\* the call timed out, could not connect, or raise_for_status() raised
HttpFailure(e) ==
    /\ current = 0
    /\ tasks[e].st = "http"
    /\ LET T == tasks[e]
           node == Graph(T.def).nodes[Top(T).node]
       IN Finalize(e, T, ExecFailed(
             Append(T.logs, Log("error", "Error executing node", node.id, "HTTP error")),
             "HTTP error"))
    /\ UNCHANGED <<workflows, execution_context, ctx_writer, ctx_order, webhook, schedVars,
                   sched_call, fired, cond_call, resolve_call, exec_calls>>

\* the loop skipping a target this run has executed already
WalkEdge_visited(e) ==
    /\ current = e
    /\ tasks[e].stack # <<>>
    /\ Top(tasks[e]).ph = "edges"
    /\ LET T == tasks[e]
           f == Top(T)
           g == Graph(T.def)
           out == Outgoing(g.edges, g.nodes[f.node].id)
       IN /\ f.ei <= Len(out)
          /\ LET edge == out[f.ei]
                 target == TargetIndex(g.nodes, edge.target)
                 seen == \E i \in 1..Len(T.trace) : T.trace[i].node = edge.target
                 T1 == SetTop(T, [f EXCEPT !.ei = f.ei + 1])
             IN IF target # 0 /\ ~seen /\ _evaluate_edge_condition(edge, f.res)
                THEN IF Len(T.stack) < MaxDepth
                     THEN /\ tasks' = [tasks EXCEPT ![e] =
                                [T1 EXCEPT !.stack = Append(T1.stack, Frame(target))]]
                          /\ UNCHANGED <<executions, current, reply>>
                     ELSE Finalize(e, T, ExecFailed(T.logs, "maximum recursion depth exceeded"))
                ELSE /\ tasks' = [tasks EXCEPT ![e] = T1]
                     /\ UNCHANGED <<executions, current, reply>>
    /\ UNCHANGED <<workflows, execution_context, ctx_writer, ctx_order, webhook, schedVars,
                   sched_call, fired, cond_call, resolve_call, exec_calls>>

\* for edge in outgoing_edges: one turn of the loop.  A call nested deeper than
\* the interpreter allows raises RecursionError, which execute_workflow catches.
WalkEdge(e) ==
    /\ current = e
    /\ tasks[e].stack # <<>>
    /\ Top(tasks[e]).ph = "edges"
    /\ LET T == tasks[e]
           f == Top(T)
           g == Graph(T.def)
           out == Outgoing(g.edges, g.nodes[f.node].id)
       IN /\ f.ei <= Len(out)
          /\ LET edge == out[f.ei]
                 target == TargetIndex(g.nodes, edge.target)
                 T1 == SetTop(T, [f EXCEPT !.ei = f.ei + 1])
             IN IF target # 0 /\ _evaluate_edge_condition(edge, f.res)
                THEN IF Len(T.stack) < MaxDepth
                     THEN /\ tasks' = [tasks EXCEPT ![e] =
                                [T1 EXCEPT !.stack = Append(T1.stack, Frame(target))]]
                          /\ UNCHANGED <<executions, current, reply>>
                     ELSE Finalize(e, T, ExecFailed(T.logs, "maximum recursion depth exceeded"))
                ELSE /\ tasks' = [tasks EXCEPT ![e] = T1]
                     /\ UNCHANGED <<executions, current, reply>>
    /\ UNCHANGED <<workflows, execution_context, ctx_writer, ctx_order, webhook, schedVars,
                   sched_call, fired, cond_call, resolve_call, exec_calls>>

\* _execute_node_chain returning node_result whatever its successors returned
ReturnNode_own(e) ==
    /\ current = e
    /\ tasks[e].stack # <<>>
    /\ Top(tasks[e]).ph = "edges"
    /\ LET T == tasks[e]
           f == Top(T)
           g == Graph(T.def)
           out == Outgoing(g.edges, g.nodes[f.node].id)
           rest == SubSeq(T.stack, 1, Len(T.stack) - 1)
       IN /\ f.ei > Len(out)
          /\ tasks' = [tasks EXCEPT ![e] =
                IF rest = <<>>
                THEN [T EXCEPT !.stack = rest, !.result = f.res]
                ELSE [T EXCEPT !.stack =
                         [rest EXCEPT ![Len(rest)] = [@ EXCEPT !.last = f.res, !.has = TRUE]]]]
    /\ UNCHANGED <<workflows, executions, execution_context, ctx_writer, ctx_order, current,
                   webhook, reply, schedVars, sched_call, fired, cond_call, resolve_call, exec_calls>>

\* _execute_node_chain returning next_results[0], the first successor's result
ReturnNode_first(e) ==
    /\ current = e
    /\ tasks[e].stack # <<>>
    /\ Top(tasks[e]).ph = "edges"
    /\ LET T == tasks[e]
           f == Top(T)
           g == Graph(T.def)
           out == Outgoing(g.edges, g.nodes[f.node].id)
           value == IF f.has THEN f.last ELSE f.res
           rest == SubSeq(T.stack, 1, Len(T.stack) - 1)
       IN /\ f.ei > Len(out)
          /\ tasks' = [tasks EXCEPT ![e] =
                IF rest = <<>>
                THEN [T EXCEPT !.stack = rest, !.result = value]
                ELSE [T EXCEPT !.stack =
                         [rest EXCEPT ![Len(rest)] =
                             IF @.has THEN @ ELSE [@ EXCEPT !.last = value, !.has = TRUE]]]]
    /\ UNCHANGED <<workflows, executions, execution_context, ctx_writer, ctx_order, current,
                   webhook, reply, schedVars, sched_call, fired, cond_call, resolve_call, exec_calls>>

\* return next_results[-1] if next_results else node_result
ReturnNode(e) ==
    /\ current = e
    /\ tasks[e].stack # <<>>
    /\ Top(tasks[e]).ph = "edges"
    /\ LET T == tasks[e]
           f == Top(T)
           g == Graph(T.def)
           out == Outgoing(g.edges, g.nodes[f.node].id)
           value == IF f.has THEN f.last ELSE f.res
           rest == SubSeq(T.stack, 1, Len(T.stack) - 1)
       IN /\ f.ei > Len(out)
          /\ tasks' = [tasks EXCEPT ![e] =
                IF rest = <<>>
                THEN [T EXCEPT !.stack = rest, !.result = value]
                ELSE [T EXCEPT !.stack =
                         [rest EXCEPT ![Len(rest)] = [@ EXCEPT !.last = value, !.has = TRUE]]]]
    /\ UNCHANGED <<workflows, executions, execution_context, ctx_writer, ctx_order, current,
                   webhook, reply, schedVars, sched_call, fired, cond_call, resolve_call, exec_calls>>

-----------------------------------------------------------------------------
(* POST /webhook/{node_id} (main.py): the enabled workflows are queried    *)
(* once; each match is run and awaited before the scan goes on.            *)

WidOrder == <<"w1", "w2">>

\* at: history, the rows of workflows as they were when the request was received
IdleWebhook == [st |-> "idle", node |-> "", payload |-> Null, queue |-> <<>>, ni |-> 0,
                triggered |-> <<>>, cur |-> 0, at |-> EmptyMap]

\* db.query(WorkflowModel).filter(WorkflowModel.enabled == True).all()
EnabledWorkflows ==
    LET IsEnabled(w) == w \in DOMAIN workflows /\ workflows[w].enabled
    IN SelectSeq(WidOrder, IsEnabled)

IsWebhookTrigger(node, x) ==
    /\ node.id = x
    /\ node.type = "trigger"
    /\ Get(node.data, "triggerType", Null) = S(<<"webhook">>)

RECURSIVE NextMatch(_, _, _)
\* the scan from node ni + 1 of the workflow at the head of queue, up to the
\* next node for which the handler calls execute_workflow_internal
NextMatch(queue, ni, x) ==
    IF queue = <<>> THEN [found |-> FALSE, queue |-> <<>>, ni |-> 0]
    ELSE LET nodes == Graph(workflows[Head(queue)].def).nodes
             hits == {i \in (ni + 1)..Len(nodes) : IsWebhookTrigger(nodes[i], x)}
         IN IF hits # {}
            THEN [found |-> TRUE, queue |-> queue,
                  ni |-> CHOOSE i \in hits : \A j \in hits : i <= j]
            ELSE NextMatch(Tail(queue), 0, x)

RECURSIVE MatchesLeft(_, _, _)
MatchesLeft(queue, ni, x) ==
    LET m == NextMatch(queue, ni, x) IN
    IF m.found THEN 1 + MatchesLeft(m.queue, m.ni, x) ELSE 0

WebhookPost(x, payload) ==
    /\ current = 0
    /\ webhook.st = "idle"
    /\ LET m == NextMatch(EnabledWorkflows, 0, x) IN
       IF ~m.found
       THEN /\ reply' = Reply("webhook", x, 200, "no_workflows")
            /\ UNCHANGED <<executions, tasks, current, webhook>>
       ELSE /\ MatchesLeft(EnabledWorkflows, 0, x) <= Cardinality(FreeExecs)
            /\ BeginRun(NextExec, Head(m.queue), "webhook")
            /\ webhook' = [st |-> "await", node |-> x, payload |-> payload,
                           queue |-> m.queue, ni |-> m.ni,
                           triggered |-> <<>>, cur |-> NextExec, at |-> workflows]
            /\ UNCHANGED reply
    /\ UNCHANGED <<workflows, execution_context, ctx_writer, ctx_order, schedVars, sched_call, fired, cond_call, resolve_call, exec_calls>>

\* execute_workflow_internal returned to webhook_trigger
WebhookResume ==
    /\ current = -1
    /\ LET done == Append(webhook.triggered,
                      [workflow_id |-> Head(webhook.queue), execution_id |-> webhook.cur])
           m == NextMatch(webhook.queue, webhook.ni, webhook.node)
       IN IF m.found
          THEN /\ FreeExecs # {}
               /\ BeginRun(NextExec, Head(m.queue), "webhook")
               /\ webhook' = [webhook EXCEPT !.queue = m.queue, !.ni = m.ni,
                                             !.triggered = done, !.cur = NextExec]
               /\ UNCHANGED reply
          ELSE /\ reply' = Reply("webhook", webhook.node, 200, "triggered")
               /\ webhook' = IdleWebhook
               /\ current' = 0
               /\ UNCHANGED <<executions, tasks>>
    /\ UNCHANGED <<workflows, execution_context, ctx_writer, ctx_order, schedVars, sched_call, fired, cond_call, resolve_call, exec_calls>>

-----------------------------------------------------------------------------
(* _execute_condition called on its own, on every configuration and        *)
(* context of a small family.                                              *)

NoCondCall == [called |-> FALSE, config |-> EmptyMap, ctx |-> EmptyMap, out |-> CondValue(FALSE)]

Operators == {"equals", "not_equals", "contains", "greater_than", "less_than",
              "always", "matches"}
ConditionTypes == {"always", "comparison"}
Operands == {Null, N(5), S(<<"5">>), S(<<"abc">>), S(<<"{{", "p1", ".", "count", "}}">>)}
Contexts == {EmptyMap, [p1 |-> D([count |-> N(5)])], [p1 |-> D([count |-> S(<<"5">>)])]}

\* the data of a condition node; hasType, hasOp: the key is present
CondConfig(hasType, ct, hasOp, op, left, right) ==
    LET base == [leftValue |-> left, rightValue |-> right]
        withOp == IF hasOp THEN Put(base, "operator", S(<<op>>)) ELSE base
    IN IF hasType THEN Put(withOp, "conditionType", S(<<ct>>)) ELSE withOp

CondConfigs ==
    {CondConfig(ht, ct, TRUE, op, l, r) :
        ht \in BOOLEAN, ct \in ConditionTypes, op \in Operators, l \in Operands, r \in Operands}
      \cup {CondConfig(TRUE, "comparison", FALSE, "", l, r) : l \in Operands, r \in Operands}

EvaluateCondition(config, ctx) ==
    /\ cond_call' = [called |-> TRUE, config |-> config, ctx |-> ctx,
                     out |-> _execute_condition(config, ctx)]
    /\ UNCHANGED <<workflows, reply, runVars, schedVars, sched_call, fired, resolve_call,
                   exec_calls>>

-----------------------------------------------------------------------------
(* _replace_variables called on its own, and again on its own result, on   *)
(* every value and context of a small family.                              *)

NoResolveCall == [called |-> FALSE, value |-> Null, ctx |-> EmptyMap, once |-> Null,
                  twice |-> Null]

MarkerA == <<"{{", "a", "}}">>
MarkerB == <<"{{", "b", "}}">>

ResolveStrings ==
    {MarkerA, MarkerB,
     <<"{{", " ", "a", " ", "}}">>,
     <<"{{", "a", ".", "b", "}}">>,
     <<"{{", "a", ".", "b", ".", "c", "}}">>,
     <<"{{", "missing", "}}">>,
     <<"{{", "a", "}}", " and ", "{{", "b", "}}">>,
     <<"see ", "{{", "a", "}}">>,
     <<"{{", "a", "}}", " items">>,
     <<"plain">>,
     <<>>}

ResolveValues ==
    {S(s) : s \in ResolveStrings}
      \cup {Null, N(1), B(TRUE),
            D([x |-> S(MarkerA), y |-> S(<<"plain">>)]),
            L(<<S(MarkerA), S(MarkerB)>>),
            L(<<D([x |-> S(<<"{{", "a", ".", "b", "}}">>)]), N(1)>>)}

ResolveContexts ==
    {EmptyMap,
     [a |-> N(1)],
     [a |-> Null],
     [a |-> S(<<"x">>), b |-> S(<<"y">>)],
     [a |-> D([b |-> N(2)])],
     [a |-> D([b |-> D([c |-> N(3)])])],
     [a |-> S(MarkerB), b |-> N(1)],
     [a |-> D([b |-> S(MarkerB)]), b |-> N(1)]}

ResolveTwice(value, ctx) ==
    /\ resolve_call' = [called |-> TRUE, value |-> value, ctx |-> ctx,
                        once |-> _replace_variables(value, ctx),
                        twice |-> _replace_variables(_replace_variables(value, ctx), ctx)]
    /\ UNCHANGED <<workflows, reply, runVars, schedVars, sched_call, fired, cond_call,
                   exec_calls>>

-----------------------------------------------------------------------------
(* Specifications *)

Init ==
    /\ workflows = EmptyMap
    /\ executions = EmptyMap
    /\ execution_context = EmptyMap
    /\ ctx_writer = EmptyMap
    /\ ctx_order = <<>>
    /\ tasks = [e \in Execs |-> FreeTask]
    /\ current = 0
    /\ webhook = IdleWebhook
    /\ reply = NoReply
    /\ running = FALSE
    /\ pending_jobs = <<>>
    /\ jobstore = EmptyMap
    /\ scheduled_workflows = EmptyMap
    /\ sched_call = NoCall
    /\ fired = {}
    /\ cond_call = NoCondCall
    /\ resolve_call = NoResolveCall
    /\ exec_calls = {}

\* The engine as main.py runs it, workflows without a schedule: definitions are
\* created and toggled, and run by hand and by webhook.
Next ==
    \/ \E w \in Wids, en \in BOOLEAN, d \in Defs : create_workflow(w, en, Null, d)
    \/ \E w \in Wids, en \in BOOLEAN : toggle_workflow(w, en)
    \/ \E w \in Wids : ExecutePost(w)
    \/ \E x \in WebhookIds : WebhookPost(x, NoPayload)
    \/ WebhookResume
    \/ \E e \in Execs : StartTrigger(e)
    \/ \E e \in Execs : EnterNode(e)
    \/ \E e \in Execs : ResumeDelay(e)
    \/ \E e \in Execs, r \in Responses : HttpResponse(e, r)
    \/ \E e \in Execs : HttpFailure(e)
    \/ \E e \in Execs : WalkEdge(e)
    \/ \E e \in Execs : ReturnNode(e)
    \/ \E e \in Execs : ReturnRun(e)

Spec == Init /\ [][Next]_vars

\* The definition side of main.py: create, update, toggle and delete with and
\* without schedules.  These handlers and the runs share no state but the rows.
NextApi ==
    \/ \E w \in Wids, en \in BOOLEAN, sch \in Schedules : create_workflow(w, en, sch, "chain")
    \/ \E w \in Wids, en \in BOOLEAN, sch \in Schedules : update_workflow(w, en, sch, "chain")
    \/ \E w \in Wids, en \in BOOLEAN : toggle_workflow(w, en)
    \/ \E w \in Wids : delete_workflow(w)

SpecApi == Init /\ [][NextApi]_vars

\* WorkflowScheduler driven through its own interface
NextSched ==
    \/ SchedulerStart
    \/ SchedulerStop
    \/ \E w \in Wids, c \in Crons : ScheduleCall(w, c)
    \/ \E w \in Wids : UnscheduleCall(w)
    \/ \E w \in Wids : CronTick(JobId(w))

SpecSched == Init /\ [][NextSched]_vars

\* Single definitions run by hand and by webhook: one workflow, created once
NextRun ==
    \/ \E en \in BOOLEAN, d \in RunDefs : create_workflow("w1", en, Null, d)
    \/ ExecutePost("w1")
    \/ \E payload \in Payloads : WebhookPost("t1", payload)
    \/ WebhookResume
    \/ \E e \in Execs : StartTrigger(e)
    \/ \E e \in Execs : EnterNode(e)
    \/ \E e \in Execs, r \in Responses : HttpResponse(e, r)
    \/ \E e \in Execs : HttpFailure(e)
    \/ \E e \in Execs : WalkEdge(e)
    \/ \E e \in Execs : ReturnNode(e)
    \/ \E e \in Execs : ReturnRun(e)

SpecRun == Init /\ [][NextRun]_vars

\* _execute_condition as a function of the node's data and the context
NextCond == \E config \in CondConfigs, ctx \in Contexts : EvaluateCondition(config, ctx)

SpecCond == Init /\ [][NextCond]_vars

\* _replace_variables as a function of the value and the context
NextResolve == \E value \in ResolveValues, ctx \in ResolveContexts : ResolveTwice(value, ctx)

SpecResolve == Init /\ [][NextResolve]_vars

-----------------------------------------------------------------------------
(* The scheduler's registry *)

\* the jobs the scheduler holds under job id `id`, pending or stored
JobsWithId(id) ==
    {<<"pending", i>> : i \in {j \in 1..Len(pending_jobs) : pending_jobs[j].id = id}}
        \cup {<<"store", j>> : j \in {k \in {0} : id \in DOMAIN jobstore}}

AllJobs ==
    {pending_jobs[i] : i \in 1..Len(pending_jobs)} \cup {jobstore[id] : id \in DOMAIN jobstore}

\* C5: after any sequence of schedule_workflow and unschedule_workflow calls
\* (and of start and stop) every workflow id has at most one job; after a
\* schedule_workflow call that returned, the id has exactly one job, and it
\* carries the cron fields of that call.
C5_OneJobPerWorkflow ==
    /\ \A w \in Wids : Cardinality(JobsWithId(JobId(w))) <= 1
    /\ (sched_call.op = "schedule" /\ ~sched_call.raised) =>
          /\ Cardinality(JobsWithId(JobId(sched_call.wid))) = 1
          /\ \A job \in AllJobs :
                job.id = JobId(sched_call.wid) => job.cron = Split(sched_call.cron)
          /\ sched_call.wid \in DOMAIN scheduled_workflows

\* an id that was registered has been scheduled again, with other cron fields
C5_Witness ==
    /\ sched_call.op = "schedule"
    /\ sched_call.was
    /\ ~sched_call.raised
    /\ sched_call.cron = CronEvery
    /\ Cardinality(JobsWithId(JobId(sched_call.wid))) = 1
    /\ \E w \in Wids : w # sched_call.wid /\ w \in DOMAIN scheduled_workflows

\* C8: schedule_workflow with a malformed cron expression raises in that call,
\* and no job carrying a malformed expression exists or has fired.
C8_MalformedCronRejected ==
    /\ (sched_call.op = "schedule" /\ sched_call.cron \in MalformedCrons) =>
          sched_call.raised
    /\ \A job \in AllJobs : \A m \in MalformedCrons : job.cron # Split(m)
    /\ \A f \in fired : \A m \in MalformedCrons : f.cron # Split(m)

\* a malformed expression was given for an id that had a valid registration,
\* on a scheduler that has fired
C8_Witness ==
    /\ sched_call.op = "schedule"
    /\ sched_call.cron = CronBadMinute
    /\ sched_call.raised
    /\ sched_call.was
    /\ fired # {}

\* C9: unschedule_workflow on an id that is not scheduled raises nothing and
\* leaves scheduled_workflows and every job as they were.
C9_UnscheduleUnknownIsNoOp ==
    [][(sched_call'.op = "unschedule" /\ ~sched_call'.was) =>
          /\ ~sched_call'.raised
          /\ UNCHANGED schedVars]_vars

\* an id that is not scheduled was unscheduled while another id is
C9_Witness ==
    /\ sched_call.op = "unschedule"
    /\ ~sched_call.was
    /\ ~sched_call.raised
    /\ scheduled_workflows # EmptyMap
    /\ AllJobs # {}

-----------------------------------------------------------------------------
(* The scheduler and the stored workflows *)

Schedulable(w) ==
    /\ w \in DOMAIN workflows
    /\ workflows[w].enabled
    /\ Truthy(workflows[w].schedule)

\* C6: after any sequence of create, update, toggle and delete calls a workflow
\* id is registered in the scheduler exactly if a stored workflow with that id
\* exists, is enabled and has a non-empty schedule.
C6_RegisteredIffSchedulable ==
    \A w \in Wids : (w \in DOMAIN scheduled_workflows) <=> Schedulable(w)

\* C7: once a workflow is registered the scheduler is running.
C7_RegisteredImpliesRunning ==
    scheduled_workflows # EmptyMap => running

-----------------------------------------------------------------------------
(* Runs *)

RECURSIVE Closure(_, _)
\* the node ids reachable from the ids of `from` along the edges of g
Closure(g, from) ==
    LET next == {g.edges[i].target : i \in {j \in 1..Len(g.edges) : g.edges[j].source \in from}}
    IN IF next \subseteq from THEN from ELSE Closure(g, from \cup next)

HasCycle(d) ==
    LET g == Graph(d) IN
    \E i \in 1..Len(g.edges) :
        g.edges[i].source \in Closure(g, {g.edges[i].target})

\* C1: a run of a workflow whose edges form a cycle ends failed with a
\* cycle-detected error.
C1_CycleDetected ==
    \A e \in Execs :
        (tasks[e].st = "done" /\ HasCycle(tasks[e].def) /\ e \in DOMAIN executions) =>
            /\ executions[e].status = "failed"
            /\ executions[e].error = S(<<"cycle detected">>)

\* C2: a placeholder resolved in one run never yields a value that another run
\* stored.
C2_ReadsOwnContext ==
    \A e \in Execs : tasks[e].read_from \subseteq {e}

\* C3: when execute_workflow is called and no other run is in progress, the
\* context is empty: nothing is carried over from the runs that ended.
C3_FreshContextPerRun ==
    [][\A e \in Execs :
          ( /\ tasks[e].st = "free"
            /\ tasks'[e].st = "run"
            /\ \A o \in Execs \ {e} : tasks[o].st \in {"free", "done"} )
          => execution_context = EmptyMap]_vars

Statuses == {"pending", "running", "completed", "failed"}
Terminal == {"completed", "failed"}

\* C4: the status of an execution row is one of pending, running, completed,
\* failed; a row starts pending or running, moves only pending -> running ->
\* completed | failed, and once completed or failed no field of it changes.
C4_ExecutionLifecycle ==
    [][/\ \A e \in DOMAIN executions' :
             /\ executions'[e].status \in Statuses
             /\ executions'[e].ended <=> executions'[e].status \in Terminal
       /\ \A e \in (DOMAIN executions') \ DOMAIN executions :
             executions'[e].status \in {"pending", "running"}
       /\ \A e \in (DOMAIN executions') \cap DOMAIN executions :
             /\ executions[e].status \in Terminal => executions'[e] = executions[e]
             /\ executions'[e].status # executions[e].status =>
                   <<executions[e].status, executions'[e].status>> \in
                       {<<"pending", "running">>, <<"running", "completed">>,
                        <<"running", "failed">>}]_vars

\* two runs of one workflow have ended, one completed and one failed
C4_Witness ==
    \E e1, e2 \in DOMAIN executions :
        /\ executions[e1].status = "completed"
        /\ executions[e2].status = "failed"
        /\ executions[e1].workflow_id = executions[e2].workflow_id
        /\ executions[e1].ended /\ executions[e2].ended

\* definition d holds a node with id x, of kind trigger, marked webhook
WebhookTriggerIn(d, x) ==
    \E i \in 1..Len(Graph(d).nodes) :
        LET node == Graph(d).nodes[i] IN
        /\ node.id = x
        /\ node.type = "trigger"
        /\ "triggerType" \in DOMAIN node.data
        /\ node.data["triggerType"] = S(<<"webhook">>)

NoEnabledMatch(x) ==
    ~ \E w \in DOMAIN workflows : workflows[w].enabled /\ WebhookTriggerIn(workflows[w].def, x)

WebhookRunBegins(e) ==
    /\ tasks[e].st = "free"
    /\ tasks'[e].st = "run"
    /\ tasks'[e].trigger_type = "webhook"

\* C10: a webhook POST for X with no enabled workflow holding a webhook
\* trigger X answers no_workflows and creates no execution; and the webhook
\* starts no run of a workflow that is disabled or has no webhook trigger X.
C10_DisabledNeverExecuted ==
    [][/\ \A x \in WebhookIds :
             (WebhookPost(x, NoPayload) /\ NoEnabledMatch(x)) =>
                 /\ reply' = Reply("webhook", x, 200, "no_workflows")
                 /\ executions' = executions
       /\ \A e \in Execs :
             WebhookRunBegins(e) =>
                 LET w == tasks'[e].wid IN
                 /\ w \in DOMAIN workflows
                 /\ workflows[w].enabled
                 /\ WebhookTriggerIn(workflows[w].def, webhook'.node)]_vars

-----------------------------------------------------------------------------
(* Conditions *)

\* the operands of the last call after variable resolution, as strings
LeftString == Str(_replace_variables(Get(cond_call.config, "leftValue", Null), cond_call.ctx))
RightString == Str(_replace_variables(Get(cond_call.config, "rightValue", Null), cond_call.ctx))

\* C20: operator equals evaluates to true on operands that are equal as strings
\* after resolution and to false on operands that differ; operator always
\* evaluates to true whatever the operands.
C20_EqualsAndAlways ==
    cond_call.called =>
        LET op == Get(cond_call.config, "operator", Null) IN
        /\ (op = S(<<"equals">>) /\ LeftString = RightString) => cond_call.out = CondValue(TRUE)
        /\ (op = S(<<"equals">>) /\ LeftString # RightString) => cond_call.out = CondValue(FALSE)
        /\ op = S(<<"always">>) => cond_call.out = CondValue(TRUE)

-----------------------------------------------------------------------------
(* Single runs *)

\* the log entries whose message names node id: "Starting workflow execution
\* from node: id", "Executing node: id (type: ...)", "Error executing node id: ..."
Mentions(entry, id) ==
    /\ entry.node = id
    /\ entry.msg \in {"Starting workflow execution from node", "Executing node",
                      "Error executing node"}

\* _execute_node was entered for node id
ExecutedIn(logs, id) ==
    \E i \in 1..Len(logs) : logs[i].msg = "Executing node" /\ logs[i].node = id

\* the step in which the run e, holding the loop, returns from execute_workflow
Finishing(e) == tasks[e].st = "run" /\ tasks'[e].st = "done"

\* the plugin call of node id was answered
Answered(logs, id) ==
    \E i \in 1..Len(logs) : logs[i].msg = "Plugin API response" /\ logs[i].node = id

\* C11: a webhook POST runs every enabled workflow with a matching webhook
\* trigger, and in each such run the trigger node's output is the POST body.
C11_PayloadIsTriggerOutput ==
    [][/\ \A e \in Execs :
             (webhook'.st = "await" /\ webhook'.cur = e) =>
                 \A i \in 1..Len(tasks'[e].stack) :
                     LET f == tasks'[e].stack[i]
                         node == Graph(tasks'[e].def).nodes[f.node]
                     IN (f.ph = "edges" /\ node.id = webhook'.node /\ node.type = "trigger")
                            => f.res = webhook'.payload
       /\ (webhook.st = "await" /\ webhook'.st = "idle") =>
             \A w \in DOMAIN webhook.at :
                 (webhook.at[w].enabled /\ WebhookTriggerIn(webhook.at[w].def, webhook.node))
                     => \E e \in DOMAIN executions' :
                           /\ executions'[e].workflow_id = w
                           /\ executions'[e].trigger_type = "webhook"]_vars

\* every edge joins two nodes of the definition, node ids are unique, and
\* there is a trigger node
WellFormed(g) ==
    LET ids == {g.nodes[i].id : i \in 1..Len(g.nodes)} IN
    /\ \A i \in 1..Len(g.edges) : g.edges[i].source \in ids /\ g.edges[i].target \in ids
    /\ Cardinality(ids) = Len(g.nodes)
    /\ \E i \in 1..Len(g.nodes) : g.nodes[i].type = "trigger"

\* C12: every stored workflow has a well-formed definition, and no run is
\* ever begun on a definition that is not well-formed.
C12_StoredDefinitionsWellFormed ==
    /\ \A w \in DOMAIN workflows : WellFormed(Graph(workflows[w].def))
    /\ \A e \in Execs : tasks[e].st # "free" => WellFormed(Graph(tasks[e].def))

\* the node at the top of run e's stack
TopNode(e) == Graph(tasks[e].def).nodes[Top(tasks[e]).node]

\* run e's handler fails in this step: the HTTP dispatch fails, or the handler
\* raises before its first await (unsupported method, float() of a non-number)
HandlerFails(e) ==
    \/ HttpFailure(e)
    \/ /\ EnterNode(e)
       /\ NodeOutcome(TopNode(e), execution_context).kind = "raise"

\* C13: when a node handler fails, the run ends there (no successor is
\* entered), an error-level entry naming the node and the failure is logged,
\* and the execution is stored failed with that message as its error and with
\* the logs written before the failure kept.
C13_HandlerFailureFailsRun ==
    [][\A e \in Execs :
          HandlerFails(e) =>
              LET row == executions'[e]
                  before == tasks[e].logs
              IN /\ tasks'[e].st = "done" /\ tasks'[e].stack = <<>>
                 /\ row.status = "failed" /\ row.ended
                 /\ row.error.t = "str" /\ row.error.s # <<>>
                 /\ Len(row.logs) > Len(before)
                 /\ SubSeq(row.logs, 1, Len(before)) = before
                 /\ \E i \in (Len(before) + 1)..Len(row.logs) :
                       /\ row.logs[i].level = "error"
                       /\ row.logs[i].msg = "Error executing node"
                       /\ row.logs[i].node = TopNode(e).id
                       /\ S(<<row.logs[i].text>>) = row.error
                 /\ \A i \in 1..Len(Graph(tasks[e].def).edges) :
                       LET ed == Graph(tasks[e].def).edges[i] IN
                       (ed.source = TopNode(e).id /\ ~ExecutedIn(before, ed.target))
                           => ~ExecutedIn(row.logs, ed.target)]_vars

\* executions failed by a float() that raised, by an unsupported method and by
\* a dispatch that failed are stored with their logs
C13_Witness ==
    \E e \in DOMAIN executions :
        /\ executions[e].status = "failed"
        /\ tasks[e].def \in {"badnum", "badmethod", "fan"}
        /\ executions[e].error \in {S(<<"could not convert to float">>),
                                    S(<<"Unsupported HTTP method">>), S(<<"HTTP error">>)}
        /\ Len(executions[e].logs) >= 4

RECURSIVE ReachAvoiding(_, _, _)
\* the node ids reachable from `from` along unconditional edges that do not
\* leave a node of `avoid`
ReachAvoiding(g, from, avoid) ==
    LET next == {g.edges[i].target :
                    i \in {j \in 1..Len(g.edges) :
                              /\ g.edges[j].source \in from \ avoid
                              /\ g.edges[j].condition = Null
                              /\ TargetIndex(g.nodes, g.edges[j].target) # 0}}
    IN IF next \subseteq from THEN from ELSE ReachAvoiding(g, from \cup next, avoid)

\* C14: a failed plugin dispatch aborts only its branch: when the run is over,
\* every node reachable from a trigger without passing the failed node has
\* been executed.
C14_SiblingBranchesStillRun ==
    \A e \in Execs :
        tasks[e].st = "done" =>
            LET g == Graph(tasks[e].def)
                logs == tasks[e].logs
                failed == {logs[i].node : i \in {j \in 1..Len(logs) : logs[j].text = "HTTP error"}}
                starts == {g.nodes[i].id : i \in {j \in 1..Len(g.nodes) : g.nodes[j].type = "trigger"}}
            IN failed # {} =>
                  \A id \in ReachAvoiding(g, starts, failed) : ExecutedIn(logs, id)

KnownKinds == {"trigger", "plugin-action", "condition", "delay", "transform"}

\* C15: entering a node of an unrecognized kind logs a warning, yields null,
\* leaves the run in progress with the node's edges to walk; and a run of
\* trigger -> unknown -> set ends completed with the set node executed.
C15_UnknownKindIsLenient ==
    [][\A e \in Execs :
          /\ (EnterNode(e) /\ TopNode(e).type \notin KnownKinds) =>
                LET logs == tasks'[e].logs IN
                /\ tasks'[e].st = "run"
                /\ Top(tasks'[e]).ph = "edges" /\ Top(tasks'[e]).ei = 1
                /\ Top(tasks'[e]).res = Null
                /\ logs[Len(logs)].level = "warning"
                /\ logs[Len(logs)].node = TopNode(e).id
                /\ execution_context'[TopNode(e).id] = Null
                /\ executions'[e].status = "running"
          /\ (Finishing(e) /\ tasks[e].def = "lenient") =>
                /\ executions'[e].status = "completed"
                /\ ExecutedIn(executions'[e].logs, "s1")]_vars

C15_Witness ==
    \E e \in DOMAIN executions :
        /\ tasks[e].def = "lenient"
        /\ executions[e].status = "completed"
        /\ \E i \in 1..Len(executions[e].logs) :
              executions[e].logs[i] = Log("warning", "Unknown node type", "u1", "audit")
        /\ executions[e].result = D([v |-> S(<<"done">>)])

\* C16: a run on an empty node list returns (the endpoint answers 200) a
\* failed result whose logs hold an error-level line, and enters no node.
C16_EmptyNodeListFails ==
    [][\A e \in Execs :
          (Finishing(e) /\ Graph(tasks[e].def).nodes = <<>>) =>
              LET row == executions'[e] IN
              /\ row.status = "failed"
              /\ \E i \in 1..Len(row.logs) :
                    row.logs[i].level = "error" /\ row.logs[i].msg = "No trigger node found"
              /\ \A i \in 1..Len(row.logs) : row.logs[i].msg # "Executing node"
              /\ tasks[e].logs = <<>> /\ tasks[e].ti = 0
              /\ execution_context' = execution_context
              /\ tasks[e].trigger_type = "manual" =>
                    reply' = Reply("execute", tasks[e].wid, 200, "failed")]_vars

C16_Witness ==
    \E e \in DOMAIN executions :
        /\ tasks[e].def = "empty" /\ tasks[e].st = "done"
        /\ executions[e].status = "failed"
        /\ reply = Reply("execute", "w1", 200, "failed")

\* the definition is one trigger node and no edge
SingleTrigger(g) == Len(g.nodes) = 1 /\ g.nodes[1].type = "trigger" /\ g.edges = <<>>

\* C17: a run of a single trigger node with no edges ends completed, its
\* result is the trigger's {triggered: true, timestamp}, and its log holds
\* exactly one "Starting workflow execution" entry.
C17_SingleTriggerPassThrough ==
    \A e \in DOMAIN executions :
        (tasks[e].st = "done" /\ SingleTrigger(Graph(tasks[e].def))) =>
            LET row == executions[e] IN
            /\ row.status = "completed"
            /\ row.result.t = "dict"
            /\ DOMAIN row.result.d = {"triggered", "timestamp"}
            /\ row.result.d["triggered"] = B(TRUE)
            /\ Cardinality({i \in 1..Len(row.logs) :
                              row.logs[i].msg = "Starting workflow execution from node"}) = 1

\* both a manual and a webhook run of a single trigger have ended
C17_Witness ==
    \E e1, e2 \in DOMAIN executions :
        /\ tasks[e1].st = "done" /\ tasks[e2].st = "done"
        /\ SingleTrigger(Graph(tasks[e1].def)) /\ SingleTrigger(Graph(tasks[e2].def))
        /\ executions[e1].trigger_type = "manual"
        /\ executions[e2].trigger_type = "webhook"

HasGate(g) ==
    \E i \in 1..Len(g.nodes) :
        LET node == g.nodes[i] IN
        /\ node.id = "c1" /\ node.type = "condition"
        /\ Get(node.data, "operator", Null) = S(<<"greater_than">>)
        /\ Get(node.data, "leftValue", Null) = S(<<"{{", "p1", ".", "count", "}}">>)
        /\ Get(node.data, "rightValue", Null) = S(<<"3">>)

\* C19: in a run of t1 -> p1 -> c1 -[guarded]-> s1 with such a condition node:
\* when p1.count is 5, c1's result is true and s1 is executed; when p1.count
\* is 2, c1's result is false, s1 is not executed and the run's result is false.
C19_GreaterThanGate ==
    [][\A e \in Execs :
          (Finishing(e) /\ HasGate(Graph(tasks[e].def)) /\ Answered(tasks[e].logs, "p1")) =>
              LET count == execution_context["p1"].d["count"]
                  row == executions'[e]
              IN /\ count = N(5) =>
                       /\ execution_context["c1"] = B(TRUE)
                       /\ ExecutedIn(row.logs, "s1")
                 /\ count = N(2) =>
                       /\ execution_context["c1"] = B(FALSE)
                       /\ ~ExecutedIn(row.logs, "s1")
                       /\ row.result = B(FALSE)]_vars

-----------------------------------------------------------------------------
(* Variable resolution *)

\* C21: resolving the result of a resolution gives the same value as
\* resolving once, for every value and every context.
C21_ResolutionIdempotent ==
    resolve_call.called => resolve_call.twice = resolve_call.once

\* the first token opens a marker, the last closes it, and none is in between
IsExactMarker(s) ==
    /\ Len(s) >= 2
    /\ s[1] = "{{"
    /\ s[Len(s)] = "}}"
    /\ \A i \in 2..(Len(s) - 1) : s[i] \notin {"{{", "}}"}

\* C24: a string that is exactly one {{path}} marker resolves to the dot-path
\* lookup, and every other string, markers inside larger text included,
\* resolves to itself.
C24_OnlyWholeStringPlaceholders ==
    (resolve_call.called /\ resolve_call.value.t = "str") =>
        IF IsExactMarker(resolve_call.value.s)
        THEN resolve_call.once
                = _get_context_value(VarPath(resolve_call.value.s), resolve_call.ctx)
        ELSE resolve_call.once = resolve_call.value

-----------------------------------------------------------------------------
(* Condition operators *)

KnownOperators == {"equals", "not_equals", "contains", "greater_than", "less_than", "always"}

\* C23: a condition whose operator is none of equals, not_equals, contains,
\* greater_than, less_than, always evaluates to false, whatever its operands.
C23_UnknownOperatorFailsClosed ==
    (/\ cond_call.called
     /\ "operator" \in DOMAIN cond_call.config
     /\ cond_call.config["operator"].s[1] \notin KnownOperators)
        => cond_call.out = CondValue(FALSE)

-----------------------------------------------------------------------------
(* Requests on a workflow id that does not exist *)

\* update, delete, toggle or manual execute called on `w`
CalledOn(w) ==
    \/ \E en \in BOOLEAN, sch \in Schedules : update_workflow(w, en, sch, "chain")
    \/ delete_workflow(w)
    \/ \E en \in BOOLEAN : toggle_workflow(w, en)
    \/ ExecutePost(w)

\* C30: update, delete, toggle and manual execute on an id that does not
\* exist answer 404 and change nothing: no workflow row, no execution row and
\* no scheduler registration is added, removed or modified.
C30_NotFoundIs404 ==
    [][\A w \in Wids :
          (w \notin DOMAIN workflows /\ CalledOn(w))
              => /\ reply'.code = 404
                 /\ UNCHANGED <<workflows, executions, schedVars>>]_vars

-----------------------------------------------------------------------------
(* Rescheduling with a malformed expression *)

-----------------------------------------------------------------------------
(* Transform nodes *)

\* C22: a transform node never has workflow text executed as host code:
\* whatever its config, a 'code' field included, no text of the workflow is
\* run by exec() and no effect outside the VariableContext (a file opened)
\* comes of it.
C22_NoHostExecution ==
    \A call \in exec_calls : ~call.ran /\ call.opened = {}

-----------------------------------------------------------------------------
(* The walk of one run *)

\* the k-th edge of g leaving node `id`, in edge-list order
EdgeFrom(g, id, k) ==
    LET from == {i \in 1..Len(g.edges) : g.edges[i].source = id}
    IN g.edges[CHOOSE i \in from : Cardinality({j \in from : j < i}) = k - 1]

NamesNode(g, id) == \E i \in 1..Len(g.nodes) : g.nodes[i].id = id

\* an edge fires unless it carries a condition and the result is False
Fires(edge, res) == ~(Truthy(edge.condition) /\ res = B(FALSE))

\* the ids of the nodes whose results the run has stored, in order
Visited(T) == [i \in 1..Len(T.trace) |-> T.trace[i].node]
VisitsOf(T, id) == {i \in 1..Len(T.trace) : T.trace[i].node = id}

\* C29: an edge fires, and its target is entered, for every result of its
\* source except one case: the edge has a non-empty condition and the result
\* is the boolean False.  An edge whose target names no node is skipped.
\* Neither skip fails the run or logs anything.
C29_EdgeFiringRule ==
    [][\A e \in Execs :
          (WalkEdge(e) /\ Len(tasks[e].stack) < MaxDepth) =>
              LET T == tasks[e]
                  f == Top(T)
                  g == Graph(T.def)
                  edge == EdgeFrom(g, g.nodes[f.node].id, f.ei)
                  stack == tasks'[e].stack
              IN /\ tasks'[e].st = "run"
                 /\ tasks'[e].logs = T.logs
                 /\ UNCHANGED executions
                 /\ IF NamesNode(g, edge.target) /\ Fires(edge, f.res)
                    THEN /\ Len(stack) = Len(T.stack) + 1
                         /\ g.nodes[stack[Len(stack)].node].id = edge.target
                         /\ stack[Len(stack)].ph = "enter"
                    ELSE Len(stack) = Len(T.stack)]_vars

\* a condition returned False: the edge without condition was followed, the
\* guarded edge and the edge to a missing node were not, and the run completed
C29_Witness ==
    \E e \in Execs :
        /\ tasks[e].st = "done"
        /\ tasks[e].def = "forks"
        /\ e \in DOMAIN executions
        /\ executions[e].status = "completed"
        /\ \E i \in VisitsOf(tasks[e], "c1") : tasks[e].trace[i].res = B(FALSE)
        /\ Visited(tasks[e]) = <<"t1", "c1", "s1">>

EdgesLeaving(g, id) == Cardinality({i \in 1..Len(g.edges) : g.edges[i].source = id})

RECURSIVE WalkResult(_, _, _, _)
RECURSIVE EdgesResult(_, _, _, _, _, _, _)
\* The depth-first walk from node `id` read off the results `trace` from
\* position pos on: ok is FALSE where the trace departs from the walk, fin is
\* FALSE where the trace ends before the walk does, next is the position
\* after the walk, res the result of the last node visited along the last
\* edge that fired.
WalkResult(g, id, trace, pos) ==
    IF pos > Len(trace) THEN [ok |-> TRUE, fin |-> FALSE, next |-> pos, res |-> Null]
    ELSE IF trace[pos].node # id THEN [ok |-> FALSE, fin |-> FALSE, next |-> pos, res |-> Null]
    ELSE EdgesResult(g, id, trace[pos].res, 1, trace, pos + 1, [has |-> FALSE, res |-> Null])

\* the edges of `id` from the k-th on; own: the result of `id`; last: the
\* result under the latest edge that fired so far
EdgesResult(g, id, own, k, trace, pos, last) ==
    IF k > EdgesLeaving(g, id)
    THEN [ok |-> TRUE, fin |-> TRUE, next |-> pos,
          res |-> IF last.has THEN last.res ELSE own]
    ELSE LET edge == EdgeFrom(g, id, k) IN
         IF NamesNode(g, edge.target) /\ Fires(edge, own)
         THEN LET r == WalkResult(g, edge.target, trace, pos) IN
              IF ~r.ok \/ ~r.fin THEN r
              ELSE EdgesResult(g, id, own, k + 1, trace, r.next, [has |-> TRUE, res |-> r.res])
         ELSE EdgesResult(g, id, own, k + 1, trace, pos, last)

RECURSIVE TriggersResult(_, _, _, _, _)
\* the walks of the trigger nodes from the k-th on, one after the other
TriggersResult(g, k, trace, pos, res) ==
    LET trigs == TriggerNodes(g.nodes) IN
    IF k > Len(trigs)
    THEN [ok |-> pos = Len(trace) + 1, fin |-> TRUE, next |-> pos, res |-> res]
    ELSE LET r == WalkResult(g, g.nodes[trigs[k]].id, trace, pos) IN
         IF ~r.ok \/ ~r.fin THEN r ELSE TriggersResult(g, k + 1, trace, r.next, r.res)

CompletedRuns ==
    {e \in Execs : /\ tasks[e].st = "done"
                   /\ e \in DOMAIN executions
                   /\ executions[e].status = "completed"}

\* C25: the result of a completed run is the result of the last node visited
\* along the last satisfied path: at each node the result under the last
\* outgoing edge that fired, in edge-list order, or the node's own result
\* when none fired; with several triggers, that of the last trigger's walk.
C25_LastBranchWins ==
    \A e \in CompletedRuns :
        LET r == TriggersResult(Graph(tasks[e].def), 1, tasks[e].trace, 1, Null)
        IN r.ok /\ r.fin /\ executions[e].result = r.res

\* two triggers: the run's result is what the second trigger's walk set, not
\* the response the first trigger's walk received
C25_Witness ==
    \E e \in CompletedRuns :
        /\ tasks[e].def = "twin"
        /\ Visited(tasks[e]) = <<"t1", "p1", "t2", "s1">>
        /\ executions[e].result = D([v |-> S(<<"done">>)])
        /\ tasks[e].trace[2].res \in Responses

\* the node ids of the 'Executing node' entries of logs, in order
Entered(logs) ==
    LET IsEntry(l) == l.msg = "Executing node"
        entries == SelectSeq(logs, IsEntry)
    IN [i \in 1..Len(entries) |-> entries[i].node]

IsPrefix(s, t) == Len(s) <= Len(t) /\ SubSeq(t, 1, Len(s)) = s

\* C26: the walk of one run is sequential and depth-first.  At most one node
\* handler of the run is active; the result of a node is stored in the
\* context before a successor of it starts; every node under an earlier
\* outgoing edge finishes before the target of a later one starts; and the
\* log entries of the nodes entered are in that order.
C26_SequentialDepthFirst ==
    \A e \in Execs :
        LET T == tasks[e]
            g == Graph(T.def)
            entered == Entered(T.logs)
            \* the node entered last has no result yet while its handler is
            \* active or after it has failed
            started == IF Len(entered) > Len(T.trace)
                       THEN Append(T.trace, Visit(entered[Len(entered)], Null))
                       ELSE T.trace
        IN T.st # "free" =>
              /\ \A i \in 1..(Len(T.stack) - 1) :
                    /\ T.stack[i].ph = "edges"
                    /\ g.nodes[T.stack[i].node].id \in DOMAIN execution_context
                    /\ \E j \in VisitsOf(T, g.nodes[T.stack[i].node].id) :
                          T.trace[j].res = T.stack[i].res
              /\ IsPrefix(Visited(T), entered)
              /\ Len(entered) <= Len(T.trace) + 1
              /\ TriggersResult(g, 1, started, 1, Null).ok

\* a fan-out whose first branch waited for its HTTP call: the second branch
\* started after the first had finished, and the logs name them in that order
C26_Witness ==
    \E e \in CompletedRuns :
        /\ tasks[e].def = "fan"
        /\ Entered(tasks[e].logs) = <<"t1", "p1", "s1">>
        /\ Visited(tasks[e]) = <<"t1", "p1", "s1">>
        /\ \E i \in 1..Len(tasks[e].logs) : tasks[e].logs[i].msg = "Plugin API response"

-----------------------------------------------------------------------------
(* Nodes reached along several paths *)

\* every edge of g has a target in g and no condition
AllEdgesFire(g) ==
    \A i \in 1..Len(g.edges) :
        NamesNode(g, g.edges[i].target) /\ ~Truthy(g.edges[i].condition)

RECURSIVE PathsFrom(_, _, _)
RECURSIVE PathsOver(_, _, _, _)
\* the number of paths of an acyclic g from node `from` to node `to`
PathsFrom(g, from, to) ==
    (IF from = to THEN 1 ELSE 0) + PathsOver(g, from, to, 1)

\* those that leave `from` by its k-th outgoing edge or a later one
PathsOver(g, from, to, k) ==
    IF k > EdgesLeaving(g, from) THEN 0
    ELSE PathsFrom(g, EdgeFrom(g, from, k).target, to) + PathsOver(g, from, to, k + 1)

RECURSIVE PathsFromTriggers(_, _, _)
PathsFromTriggers(g, k, to) ==
    LET trigs == TriggerNodes(g.nodes) IN
    IF k > Len(trigs) THEN 0
    ELSE PathsFrom(g, g.nodes[trigs[k]].id, to) + PathsFromTriggers(g, k + 1, to)

\* C27: the walk keeps no visited set.  In a run of an acyclic workflow whose
\* edges all fire, a node reached from the trigger along k paths has its
\* handler executed k times, and each time its result is stored its context
\* entry holds that result, so the entry ends as the result of the last one.
C27_NoVisitedSet ==
    [][\A e \in Execs :
          LET T == tasks'[e]
              g == Graph(T.def)
              n == Len(T.trace)
          IN /\ Len(tasks[e].trace) < n =>
                   execution_context'[T.trace[n].node] = T.trace[n].res
             /\ (/\ Finishing(e)
                 /\ executions'[e].status = "completed"
                 /\ AllEdgesFire(g)
                 /\ ~HasCycle(T.def)) =>
                   \A i \in 1..Len(g.nodes) :
                       Cardinality(VisitsOf(T, g.nodes[i].id))
                           = PathsFromTriggers(g, 1, g.nodes[i].id)]_vars

\* the join of the diamond ran once after each branch, and its entry is the
\* result of the second run, made from what the second branch had set
C27_Witness ==
    \E e \in CompletedRuns :
        /\ tasks[e].def = "diamond"
        /\ Visited(tasks[e]) = <<"t1", "b1", "j1", "c1", "j1">>
        /\ tasks[e].trace[3].res = D([v |-> S(<<"b">>)])
        /\ tasks[e].trace[5].res = D([v |-> S(<<"c">>)])
        /\ execution_context["j1"] = D([v |-> S(<<"c">>)])
        /\ ctx_writer["j1"] = e

====
